---- MODULE Spec2Model ----
(***************************************************************************)
(* State-machine model of the authoritative soccer server                  *)
(* (src/src/services/soccer.service.ts with the kinematic kernel of        *)
(* shared-physics.ts).                                                      *)
(*                                                                         *)
(* Numbers: the program computes in IEEE doubles.  The model uses          *)
(* integers: positions in px, velocities in px/s, time in ms.  A product   *)
(* with a fractional factor is taken per mille and truncated toward zero   *)
(* (MulDiv); exp, cos and sin are tabulated per mille; sqrt is the integer *)
(* square root.  Comparisons of distances are made on the squares, which   *)
(* is exact for integer coordinates.                                       *)
(***************************************************************************)
EXTENDS Integers, Sequences, FiniteSets, TLC

(***************************************************************************)
(* Program constants                                                       *)
(***************************************************************************)
BALL_RADIUS == 30
PLAYER_RADIUS == 30
WORLD_WIDTH == 3520
WORLD_HEIGHT == 1600
FIXED_TIMESTEP_MS == 16
NETWORK_TICK_MS == 50
PLAYER_ACCEL == 1600
PLAYER_MAX_SPEED == 600
VELOCITY_STOP_THRESHOLD == 10
BALL_DRAG_FACTOR_PM == 984
BALL_BOUNCE_PM == 700
BASE_KICK_POWER == 1000
KICK_COOLDOWN_MS == 300
KICK_KNOCKBACK == 400
MAX_DRIBBLE_DISTANCE == 300
DRIBBLE_COOLDOWN_MS == 100
DRIBBLE_POWER == 300
PUSH_FORCE == 150
BALL_KNOCKBACK_PM == 600
BALL_KNOCKBACK_CAP == 200
BALL_KNOCKBACK_MIN_SPEED == 100
PLAYER_BOUNCE_DAMPING_PM == 600
GOAL_RESET_DELAY_MS == 3000
HISTORY_LEN == 60
HISTORY_WINDOW_MS == 500
MAX_INPUT_QUEUE == 120
KICK_DISTANCE == 250
KICK_DISTANCE_METAVISION == 300
INTERCEPT_OFFSET == 40
POWER_SHOT_RANGE == 200
POWER_SHOT_BUFF_MS == 3000
POWER_SHOT_BUFF_VALUE == 5

NULL == "null"

SPECTATOR_SPAWN == [x |-> 250, y |-> 100]

\* Spawn coordinates rounded to whole px.
RED_TEAM_SPAWNS ==
  << [x |-> 1413, y |-> 515], [x |-> 1413, y |-> 777], [x |-> 1413, y |-> 985],
     [x |-> 941, y |-> 515], [x |-> 941, y |-> 777], [x |-> 941, y |-> 985] >>

BLUE_TEAM_SPAWNS ==
  << [x |-> 2103, y |-> 515], [x |-> 2103, y |-> 777], [x |-> 2103, y |-> 985],
     [x |-> 2532, y |-> 515], [x |-> 2532, y |-> 778], [x |-> 2532, y |-> 985] >>

\* getSkillConfig: cooldownMs, durationMs and the server-effect parameters.
SOCCER_SKILLS ==
  [ slowdown       |-> [cooldownMs |-> 30000, durationMs |-> 5000, multiplierPm |-> 350],
    blink          |-> [cooldownMs |-> 12000, durationMs |-> 0, distance |-> 400,
                        preventWallClip |-> TRUE],
    metavision     |-> [cooldownMs |-> 20000, durationMs |-> 8000],
    ninja_step     |-> [cooldownMs |-> 0, durationMs |-> 0],
    lurking_radius |-> [cooldownMs |-> 20000, durationMs |-> 5000, radius |-> 500],
    power_shot     |-> [cooldownMs |-> 20000, durationMs |-> 3000, force |-> 2000,
                        knockbackForce |-> 300, ballRetentionPm |-> 800,
                        activeWindowMs |-> 3000] ]

SkillIds == DOMAIN SOCCER_SKILLS

(***************************************************************************)
(* Static world.  The map files (soccer-collisions.json, soccer-goals.json)*)
(* are data read at startup; these are the rectangles the model loads.     *)
(***************************************************************************)
collisionRects ==
  << [x |-> 1700, y |-> 700, width |-> 120, height |-> 40] >>

goalZones ==
  << [name |-> "red_goal", team |-> "red", x |-> 60, y |-> 650,
      width |-> 90, height |-> 300],
     [name |-> "blue_goal", team |-> "blue", x |-> 3370, y |-> 650,
      width |-> 90, height |-> 300] >>

(***************************************************************************)
(* Arithmetic helpers                                                      *)
(***************************************************************************)
Abs(v) == IF v < 0 THEN -v ELSE v

Min(a, b) == IF a < b THEN a ELSE b

Max(a, b) == IF a > b THEN a ELSE b

\* v * num / den, truncated toward zero.
MulDiv(v, num, den) ==
  IF v >= 0 THEN (v * num) \div den ELSE -(((-v) * num) \div den)

RECURSIVE SqrtSearch(_, _, _)
SqrtSearch(n, lo, hi) ==
  IF lo >= hi THEN lo
  ELSE LET mid == (lo + hi + 1) \div 2
       IN IF mid * mid <= n THEN SqrtSearch(n, mid, hi)
          ELSE SqrtSearch(n, lo, mid - 1)

\* Math.sqrt on a non-negative integer, rounded down.
Sqrt(n) == SqrtSearch(n, 0, 46340)

Dist2(ax, ay, bx, by) == (ax - bx) * (ax - bx) + (ay - by) * (ay - by)

\* Kick angles a client can send, with cos and sin per mille.
Angles == {"E", "S", "W", "N"}

Cos(a) == CASE a = "E" -> 1000 [] a = "W" -> -1000 [] OTHER -> 0

Sin(a) == CASE a = "S" -> 1000 [] a = "N" -> -1000 [] OTHER -> 0

(***************************************************************************)
(* Kinematic kernel (shared-physics.ts)                                    *)
(***************************************************************************)
\* 1.0 + speedStat * 0.1, per mille.
calculateSpeedMultiplier(speedStat) == 1000 + speedStat * 100

\* 1.0 + kickPowerStat * 0.1, per mille.
calculateKickPowerMultiplier(kickPowerStat) == 1000 + kickPowerStat * 100

\* max(0.5, 1.0 - dribblingStat * 0.05), per mille.
calculateDragMultiplier(dribblingStat) == Max(500, 1000 - dribblingStat * 50)

\* exp(-PLAYER_DRAG * dragMultiplier * dt) per mille, for the drag
\* multipliers calculateDragMultiplier can return (1000, 950, ..., 500).
PlayerDragFactor(dragMultiplierPm) ==
  CASE dragMultiplierPm = 1000 -> 938
    [] dragMultiplierPm = 950 -> 941
    [] dragMultiplierPm = 900 -> 944
    [] dragMultiplierPm = 850 -> 947
    [] dragMultiplierPm = 800 -> 950
    [] dragMultiplierPm = 750 -> 953
    [] dragMultiplierPm = 700 -> 956
    [] dragMultiplierPm = 650 -> 959
    [] dragMultiplierPm = 600 -> 962
    [] dragMultiplierPm = 550 -> 965
    [] OTHER -> 969

calculateKickVelocity(angle, basePower, kickPowerStat, hasMetavision) ==
  LET m0 == calculateKickPowerMultiplier(kickPowerStat)
      multiplier == IF hasMetavision THEN MulDiv(m0, 1200, 1000) ELSE m0
      power == MulDiv(basePower, multiplier, 1000)
  IN [vx |-> MulDiv(power, Cos(angle), 1000), vy |-> MulDiv(power, Sin(angle), 1000)]

\* The wall clock: Date.now(), ms.
VARIABLE now

\* integrateBall without the drag of its step 1.
integrateBall_NoDrag(s) ==
  LET x1 == s.x + MulDiv(s.vx, FIXED_TIMESTEP_MS, 1000)
      y1 == s.y + MulDiv(s.vy, FIXED_TIMESTEP_MS, 1000)
      lowX == x1 < BALL_RADIUS
      highX == ~lowX /\ x1 > WORLD_WIDTH - BALL_RADIUS
      lowY == y1 < BALL_RADIUS
      highY == ~lowY /\ y1 > WORLD_HEIGHT - BALL_RADIUS
  IN [s EXCEPT !.x = IF lowX THEN BALL_RADIUS
                     ELSE IF highX THEN WORLD_WIDTH - BALL_RADIUS ELSE x1,
               !.y = IF lowY THEN BALL_RADIUS
                     ELSE IF highY THEN WORLD_HEIGHT - BALL_RADIUS ELSE y1,
               !.vx = IF lowX THEN MulDiv(Abs(s.vx), BALL_BOUNCE_PM, 1000)
                      ELSE IF highX THEN -MulDiv(Abs(s.vx), BALL_BOUNCE_PM, 1000)
                      ELSE s.vx,
               !.vy = IF lowY THEN MulDiv(Abs(s.vy), BALL_BOUNCE_PM, 1000)
                      ELSE IF highY THEN -MulDiv(Abs(s.vy), BALL_BOUNCE_PM, 1000)
                      ELSE s.vy]

\* integrateBall with the time step read off the wall clock instead of passed in.
integrateBall_WallClockStep(s) ==
  LET dt == FIXED_TIMESTEP_MS + (now % FIXED_TIMESTEP_MS)
      vx1 == MulDiv(s.vx, BALL_DRAG_FACTOR_PM, 1000)
      vy1 == MulDiv(s.vy, BALL_DRAG_FACTOR_PM, 1000)
      x1 == s.x + MulDiv(vx1, dt, 1000)
      y1 == s.y + MulDiv(vy1, dt, 1000)
  IN [s EXCEPT !.x = IF x1 < BALL_RADIUS THEN BALL_RADIUS
                     ELSE IF x1 > WORLD_WIDTH - BALL_RADIUS
                          THEN WORLD_WIDTH - BALL_RADIUS ELSE x1,
               !.y = IF y1 < BALL_RADIUS THEN BALL_RADIUS
                     ELSE IF y1 > WORLD_HEIGHT - BALL_RADIUS
                          THEN WORLD_HEIGHT - BALL_RADIUS ELSE y1,
               !.vx = IF x1 < BALL_RADIUS THEN MulDiv(Abs(vx1), BALL_BOUNCE_PM, 1000)
                      ELSE IF x1 > WORLD_WIDTH - BALL_RADIUS
                           THEN -MulDiv(Abs(vx1), BALL_BOUNCE_PM, 1000) ELSE vx1,
               !.vy = IF y1 < BALL_RADIUS THEN MulDiv(Abs(vy1), BALL_BOUNCE_PM, 1000)
                      ELSE IF y1 > WORLD_HEIGHT - BALL_RADIUS
                           THEN -MulDiv(Abs(vy1), BALL_BOUNCE_PM, 1000) ELSE vy1]

\* integrateBall(state, dt) with dt = FIXED_TIMESTEP_SEC; s has x, y, vx, vy.
integrateBall(s) ==
  LET vx1 == MulDiv(s.vx, BALL_DRAG_FACTOR_PM, 1000)
      vy1 == MulDiv(s.vy, BALL_DRAG_FACTOR_PM, 1000)
      x1 == s.x + MulDiv(vx1, FIXED_TIMESTEP_MS, 1000)
      y1 == s.y + MulDiv(vy1, FIXED_TIMESTEP_MS, 1000)
      \* left wall
      x2 == IF x1 < BALL_RADIUS THEN BALL_RADIUS ELSE x1
      vx2 == IF x1 < BALL_RADIUS THEN MulDiv(Abs(vx1), BALL_BOUNCE_PM, 1000) ELSE vx1
      \* right wall
      x3 == IF x2 > WORLD_WIDTH - BALL_RADIUS THEN WORLD_WIDTH - BALL_RADIUS ELSE x2
      vx3 == IF x2 > WORLD_WIDTH - BALL_RADIUS
             THEN -MulDiv(Abs(vx2), BALL_BOUNCE_PM, 1000) ELSE vx2
      \* top wall
      y2 == IF y1 < BALL_RADIUS THEN BALL_RADIUS ELSE y1
      vy2 == IF y1 < BALL_RADIUS THEN MulDiv(Abs(vy1), BALL_BOUNCE_PM, 1000) ELSE vy1
      \* bottom wall
      y3 == IF y2 > WORLD_HEIGHT - BALL_RADIUS THEN WORLD_HEIGHT - BALL_RADIUS ELSE y2
      vy3 == IF y2 > WORLD_HEIGHT - BALL_RADIUS
             THEN -MulDiv(Abs(vy2), BALL_BOUNCE_PM, 1000) ELSE vy2
  IN [s EXCEPT !.x = x3, !.y = y3, !.vx = vx3, !.vy = vy3]

\* integratePlayer(state, input, dt, dragMultiplier, speedMultiplier).
integratePlayer(s, input, dragMultiplierPm, speedMultiplierPm) ==
  LET accel == MulDiv(PLAYER_ACCEL, speedMultiplierPm, 1000)
      maxSpeed == MulDiv(PLAYER_MAX_SPEED, speedMultiplierPm, 1000)
      dv == MulDiv(accel, FIXED_TIMESTEP_MS, 1000)
      vy0 == s.vy - (IF input.up THEN dv ELSE 0) + (IF input.down THEN dv ELSE 0)
      vx0 == s.vx - (IF input.left THEN dv ELSE 0) + (IF input.right THEN dv ELSE 0)
      dragFactor == PlayerDragFactor(dragMultiplierPm)
      vx1 == MulDiv(vx0, dragFactor, 1000)
      vy1 == MulDiv(vy0, dragFactor, 1000)
      speed == Sqrt(vx1 * vx1 + vy1 * vy1)
      vx2 == IF speed > maxSpeed THEN MulDiv(vx1, maxSpeed, speed) ELSE vx1
      vy2 == IF speed > maxSpeed THEN MulDiv(vy1, maxSpeed, speed) ELSE vy1
      x1 == s.x + MulDiv(vx2, FIXED_TIMESTEP_MS, 1000)
      y1 == s.y + MulDiv(vy2, FIXED_TIMESTEP_MS, 1000)
      lowX == x1 < PLAYER_RADIUS
      x2 == IF lowX THEN PLAYER_RADIUS ELSE x1
      highX == x2 > WORLD_WIDTH - PLAYER_RADIUS
      x3 == IF highX THEN WORLD_WIDTH - PLAYER_RADIUS ELSE x2
      lowY == y1 < PLAYER_RADIUS
      y2 == IF lowY THEN PLAYER_RADIUS ELSE y1
      highY == y2 > WORLD_HEIGHT - PLAYER_RADIUS
      y3 == IF highY THEN WORLD_HEIGHT - PLAYER_RADIUS ELSE y2
  IN [s EXCEPT !.x = x3, !.y = y3,
               !.vx = IF lowX \/ highX THEN 0 ELSE vx2,
               !.vy = IF lowY \/ highY THEN 0 ELSE vy2]

(***************************************************************************)
(* State                                                                   *)
(***************************************************************************)
\* Socket ids of the clients; a player's id is its socket id.
Players == {"a", "b", "c"}

Teams == {"red", "blue"}

VARIABLES
  sockets,                \* clients for which a SoccerService is constructed
  activeConnections,      \* SoccerService.activeConnections
  updateInterval,         \* SoccerService.updateInterval
  runningLoops,           \* number of live setImmediate(loop) chains
  lastTime,               \* SoccerService.lastTime, ms
  accumulator,            \* SoccerService.accumulator, ms
  networkAccumulator,     \* SoccerService.networkAccumulator, ms
  loopThrew,              \* a loop callback has thrown out of serverTick
  currentTick,            \* SoccerService.currentTick
  playerPositions,        \* game.service playerPositions: currentScene, team
  joinOrder,              \* insertion order of playerPositions
  playerPhysics,          \* SoccerService.playerPhysics
  physOrder,              \* insertion order of playerPhysics
  playerInputs,           \* SoccerService.playerInputs
  playerInputQueues,      \* SoccerService.playerInputQueues
  lastProcessedSequence,  \* SoccerService.lastProcessedSequence
  ballState,              \* SoccerService.ballState
  lastKickTime,           \* SoccerService.lastKickTime
  kickLog,                \* per player, the times of its accepted kicks
  cancelDue,              \* timeouts that were pending at a game reset or at
                          \* the disconnect of their player
  lastSnapshot,           \* the ball snapshot sent last
  skillLog,               \* per player and skill, the time of the last
                          \* activation that took effect
  hasScoredGoal,          \* SoccerService.hasScoredGoal
  score,                  \* SoccerService.score
  playerMatchStats,       \* SoccerService.playerMatchStats
  statsOrder,             \* insertion order of playerMatchStats
  ballHistory,            \* SoccerService.ballHistory
  playerHistory,          \* SoccerService.playerHistory
  timers,                 \* pending setTimeout callbacks, in creation order
  gameStatus,             \* SoccerService.gameStatus
  isGameActive,           \* SoccerService.isGameActive
  gameTimeRemaining,      \* SoccerService.gameTimeRemaining, ms
  playerAssignedSkills,   \* SoccerService.playerAssignedSkills
  selectionOrder,         \* SoccerService.selectionOrder
  currentPickerIndex,     \* SoccerService.currentPickerIndex (from 0)
  availableSkillIds,      \* SoccerService.availableSkillIds, as a set
  midGamePickers,         \* SoccerService.midGamePickers
  pickLog,                \* the players picked for in the selection phase, in order
  playerSkillCooldowns,   \* SoccerService.playerSkillCooldowns: [player][skill] last use
  slowedPlayers,          \* SoccerService.slowedPlayers
  metavisionPlayers,      \* SoccerService.metavisionPlayers
  ninjaStepPlayers,       \* SoccerService.ninjaStepPlayers
  lurkingPlayers,         \* SoccerService.lurkingPlayers: expiry per player
  powerShotActivation,    \* SoccerService.powerShotActivation (playerId NULL: null)
  playerBuffs,            \* SoccerService.playerBuffs: the kickPower buff per player
  emitted,                \* messages sent by the last handler, in order
  replay,                 \* an independent second run of the physics kernel
  lastOp                  \* the handler that ran last, with its input and outcome

tickVars == << lastTime, accumulator, networkAccumulator >>

loopVars == << sockets, activeConnections, updateInterval, runningLoops, loopThrew,
              replay, tickVars >>

sceneVars == << playerPositions, joinOrder >>

inputVars == << playerInputs, playerInputQueues >>

kickVars == << lastKickTime, kickLog, cancelDue, lastSnapshot, skillLog >>

histVars == << ballHistory, playerHistory >>

selectionVars == << selectionOrder, currentPickerIndex, availableSkillIds,
                    midGamePickers, pickLog >>

matchVars == << gameStatus, isGameActive, gameTimeRemaining, playerAssignedSkills,
                selectionVars >>

skillVars == << playerSkillCooldowns, slowedPlayers, metavisionPlayers,
                ninjaStepPlayers, lurkingPlayers, powerShotActivation, playerBuffs >>

vars == << sockets, activeConnections, updateInterval, runningLoops, loopThrew,
           lastTime, accumulator, networkAccumulator,
           currentTick, now, playerPositions, joinOrder, playerPhysics, physOrder,
           playerInputs, playerInputQueues, lastProcessedSequence, ballState,
           lastKickTime, kickLog, cancelDue, lastSnapshot, skillLog, hasScoredGoal, score,
           playerMatchStats, statsOrder, ballHistory, playerHistory, timers, gameStatus,
           isGameActive, gameTimeRemaining, playerAssignedSkills, selectionOrder,
           currentPickerIndex, availableSkillIds, midGamePickers, pickLog,
           playerSkillCooldowns, slowedPlayers,
           metavisionPlayers, ninjaStepPlayers, lurkingPlayers,
           powerShotActivation, playerBuffs, emitted, replay, lastOp >>

NoStats == [speed |-> 0, kickPower |-> 0, dribbling |-> 0]

NoMatchStats == [goals |-> 0, assists |-> 0, interceptions |-> 0]

\* The static field initialisers of SoccerService.
InitialBall ==
  [x |-> 1760, y |-> 800, vx |-> 0, vy |-> 0, sequence |-> 0,
   lastTouchId |-> NULL, previousTouchId |-> NULL, lastTouchTimestamp |-> 0,
   isMoving |-> FALSE]

Msg(type, player, team, sequence, tick) ==
  [type |-> type, player |-> player, team |-> team, sequence |-> sequence,
   tick |-> tick]

IsOnTeam(team) == team = "red" \/ team = "blue"

(***************************************************************************)
(* One physics step (the body of the while loop of serverTick).  The step  *)
(* is computed on a record w of the fields it writes: ball, phys, inputs,  *)
(* queues, lps, score, stats, goal (hasScoredGoal), timers, the match      *)
(* fields, tick (currentTick), out (the messages it sends), nan (a         *)
(* division 0 / 0 took place: two centres coincided in a collision) and    *)
(* ended (what handleGameEnd found when it ended the match in this step).  *)
(***************************************************************************)
World ==
  [ball |-> ballState, phys |-> playerPhysics, inputs |-> playerInputs,
   queues |-> playerInputQueues, lps |-> lastProcessedSequence,
   score |-> score, stats |-> playerMatchStats, statOrder |-> statsOrder,
   goal |-> hasScoredGoal,
   timers |-> timers, gameStatus |-> gameStatus, isGameActive |-> isGameActive,
   gameTimeRemaining |-> gameTimeRemaining, assigned |-> playerAssignedSkills,
   tick |-> currentTick, out |-> << >>, nan |-> FALSE,
   ended |-> [winner |-> NULL]]

\* A JavaScript Map is a function whose DOMAIN is the set of its keys.
MapSet(m, k, v) == [x \in DOMAIN m \cup {k} |-> IF x = k THEN v ELSE m[x]]

MapDel(m, k) == [x \in DOMAIN m \ {k} |-> m[x]]

EmptyMap == [x \in {} |-> 0]

\* playerMatchStats.get(id) || {goals: 0, assists: 0, interceptions: 0}
StatsOf(stats, id) == IF id \in DOMAIN stats THEN stats[id] ELSE NoMatchStats

\* The insertion order of playerMatchStats after playerMatchStats.set(id, ...)
StatsSet(order, id) ==
  IF \E i \in 1..Len(order) : order[i] = id THEN order ELSE Append(order, id)

\* getPlayerPositions().get(id) is defined.
HasPosition(id) == id \in DOMAIN playerPositions

IsPowerShot ==
  powerShotActivation.playerId # NULL /\ now < powerShotActivation.expiresAt

\* Component of the unit vector (d / distance), per mille.  At distance 0
\* the quotient is NaN; the step then sets nan and is not modelled further.
UnitPm(d, distance) == IF distance = 0 THEN 0 ELSE MulDiv(d, 1000, distance)

\* v - 2 (v . n) n for a normal given per mille.
Reflect(vx, vy, nx, ny) ==
  LET dotProduct == MulDiv(vx * nx + vy * ny, 1, 1000)
  IN [vx |-> vx - MulDiv(2 * dotProduct * nx, 1, 1000),
      vy |-> vy - MulDiv(2 * dotProduct * ny, 1, 1000)]

handleBallPlayerCollision(w, playerId) ==
  LET ball == w.ball
      pl == w.phys[playerId]
      dx == ball.x - pl.x
      dy == ball.y - pl.y
      distance == Sqrt(dx * dx + dy * dy)
      nx == UnitPm(dx, distance)
      ny == UnitPm(dy, distance)
      r == Reflect(ball.vx, ball.vy, nx, ny)
      bounceDamping == IF IsPowerShot THEN powerShotActivation.ballRetentionPm
                       ELSE PLAYER_BOUNCE_DAMPING_PM
      overlap == BALL_RADIUS + PLAYER_RADIUS - distance
      newTouch == ball.lastTouchId # playerId
      previousKickerPresent == HasPosition(ball.lastTouchId)
      intercepted ==
        /\ newTouch
        /\ previousKickerPresent
        /\ playerPositions[ball.lastTouchId].team # playerPositions[playerId].team
      ball2 == [ball EXCEPT
                  !.vx = MulDiv(r.vx, bounceDamping, 1000),
                  !.vy = MulDiv(r.vy, bounceDamping, 1000),
                  !.x = ball.x + MulDiv(nx * (overlap + 1), 1, 1000),
                  !.y = ball.y + MulDiv(ny * (overlap + 1), 1, 1000),
                  !.previousTouchId = IF newTouch THEN ball.lastTouchId ELSE @,
                  !.lastTouchId = playerId,
                  !.lastTouchTimestamp = now]
  IN [w EXCEPT
        !.nan = @ \/ distance = 0,
        !.ball = ball2,
        !.stats = IF intercepted
                  THEN MapSet(@, playerId,
                              [StatsOf(@, playerId) EXCEPT !.interceptions = @ + 1])
                  ELSE @,
        !.statOrder = IF intercepted THEN StatsSet(@, playerId) ELSE @,
        !.out = Append(@, Msg("ball:intercepted", playerId, NULL, ball.sequence, w.tick))]

\* Index in physOrder of the first player the ball overlaps, 0 if none:
\* the loop of updateBallPhysics over the players breaks at that player.
FirstBallContact(w) ==
  LET hits == {i \in 1..Len(physOrder) :
                 Dist2(w.ball.x, w.ball.y, w.phys[physOrder[i]].x,
                       w.phys[physOrder[i]].y)
                   < (BALL_RADIUS + PLAYER_RADIUS) * (BALL_RADIUS + PLAYER_RADIUS)}
  IN IF hits = {} THEN 0 ELSE CHOOSE i \in hits : \A j \in hits : i <= j

ClosestOnRect(v, lo, size) == Max(lo, Min(v, lo + size))

\* checkBallRectCollision: collides and the normal per mille.
checkBallRectCollision(ball, rect) ==
  LET closestX == ClosestOnRect(ball.x, rect.x, rect.width)
      closestY == ClosestOnRect(ball.y, rect.y, rect.height)
      dx == ball.x - closestX
      dy == ball.y - closestY
      d2 == dx * dx + dy * dy
      distance == Sqrt(d2)
      distToLeft == ball.x - rect.x
      distToRight == rect.x + rect.width - ball.x
      distToTop == ball.y - rect.y
      distToBottom == rect.y + rect.height - ball.y
      minDist == Min(Min(distToLeft, distToRight), Min(distToTop, distToBottom))
  IN IF d2 < BALL_RADIUS * BALL_RADIUS
     THEN IF d2 = 0
          THEN IF minDist = distToLeft THEN [collides |-> TRUE, x |-> -1000, y |-> 0]
               ELSE IF minDist = distToRight THEN [collides |-> TRUE, x |-> 1000, y |-> 0]
               ELSE IF minDist = distToTop THEN [collides |-> TRUE, x |-> 0, y |-> -1000]
               ELSE [collides |-> TRUE, x |-> 0, y |-> 1000]
          ELSE [collides |-> TRUE, x |-> UnitPm(dx, distance),
                y |-> UnitPm(dy, distance)]
     ELSE [collides |-> FALSE, x |-> 0, y |-> 0]

\* The rectangle bounce of updateBallPhysics for one colliding rect.
BounceOffRect(ball, rect, normal) ==
  LET r == Reflect(ball.vx, ball.vy, normal.x, normal.y)
      cx == ClosestOnRect(ball.x, rect.x, rect.width)
      cy == ClosestOnRect(ball.y, rect.y, rect.height)
      penetration == BALL_RADIUS - Sqrt(Dist2(ball.x, ball.y, cx, cy))
  IN [ball EXCEPT
        !.vx = MulDiv(r.vx, BALL_BOUNCE_PM, 1000),
        !.vy = MulDiv(r.vy, BALL_BOUNCE_PM, 1000),
        !.x = ball.x + MulDiv(normal.x * (penetration + 1), 1, 1000),
        !.y = ball.y + MulDiv(normal.y * (penetration + 1), 1, 1000)]

\* Index of the first rect the ball collides with, 0 if none.
FirstRectContact(ball) ==
  LET hits == {i \in 1..Len(collisionRects) :
                 checkBallRectCollision(ball, collisionRects[i]).collides}
  IN IF hits = {} THEN 0 ELSE CHOOSE i \in hits : \A j \in hits : i <= j

checkBallGoalCollision(ball, goal) ==
  /\ ball.x >= goal.x
  /\ ball.x <= goal.x + goal.width
  /\ ball.y >= goal.y
  /\ ball.y <= goal.y + goal.height

\* Index of the first goal zone holding the ball centre, 0 if none.
FirstGoalContact(ball) ==
  LET hits == {i \in 1..Len(goalZones) : checkBallGoalCollision(ball, goalZones[i])}
  IN IF hits = {} THEN 0 ELSE CHOOSE i \in hits : \A j \in hits : i <= j

OtherTeam(team) == IF team = "red" THEN "blue" ELSE "red"

\* An assist is earned as if the scorer and the assister were on one team
\* whatever their teams are.
AssistEarned_AnyTeam(scorer, assister) ==
  /\ scorer # NULL
  /\ assister # NULL
  /\ HasPosition(scorer)
  /\ HasPosition(assister)

\* The condition under which the goal branch records an assist.
AssistEarned(scorer, assister) ==
  /\ scorer # NULL
  /\ assister # NULL
  /\ HasPosition(scorer)
  /\ HasPosition(assister)
  /\ playerPositions[scorer].team = playerPositions[assister].team

\* The goal branch of updateBallPhysics: score, goal and assist credit,
\* goal:scored, resetBall() and resetAllPlayerPositions() with delay.
AwardGoal(w, goal) ==
  LET ball == w.ball
      scoringTeam == OtherTeam(goal.team)
      scorer == ball.lastTouchId
      assister == ball.previousTouchId
      assist == AssistEarned(scorer, assister)
      stats1 == IF scorer # NULL
                THEN MapSet(w.stats, scorer,
                            [StatsOf(w.stats, scorer) EXCEPT !.goals = @ + 1])
                ELSE w.stats
      order1 == IF scorer # NULL THEN StatsSet(w.statOrder, scorer) ELSE w.statOrder
      stats2 == IF assist
                THEN MapSet(stats1, assister,
                            [StatsOf(stats1, assister) EXCEPT !.assists = @ + 1])
                ELSE stats1
  IN [w EXCEPT
        !.score = [@ EXCEPT ![scoringTeam] = @ + 1],
        !.stats = stats2,
        !.statOrder = IF assist THEN StatsSet(order1, assister) ELSE order1,
        !.goal = TRUE,
        !.timers = @ \o << [kind |-> "resetBall", fireAt |-> now + GOAL_RESET_DELAY_MS,
                            player |-> NULL, skill |-> NULL, affected |-> {}],
                           [kind |-> "resetPlayers", fireAt |-> now + GOAL_RESET_DELAY_MS,
                            player |-> NULL, skill |-> NULL, affected |-> {}] >>,
        !.out = @ \o << Msg("goal:scored", scorer, scoringTeam, ball.sequence, w.tick),
                        Msg("ball:state", scorer, NULL, ball.sequence, w.tick) >>]

Timer(kind, fireAt, player, skill, affected) ==
  [kind |-> kind, fireAt |-> fireAt, player |-> player, skill |-> skill,
   affected |-> affected]

\* updateBallPhysics up to its call of updatePlayerPhysics.  The result
\* carries scored = TRUE when the goal branch returned early.
\* Goal check and stop threshold, after the collisions of the step.
BallGoalPhase(w3) ==
  IF FirstGoalContact(w3.ball) # 0 /\ ~w3.goal
  THEN [w |-> AwardGoal(w3, goalZones[FirstGoalContact(w3.ball)]), scored |-> TRUE]
  ELSE [w |-> IF w3.ball.vx * w3.ball.vx + w3.ball.vy * w3.ball.vy
                   < VELOCITY_STOP_THRESHOLD * VELOCITY_STOP_THRESHOLD
              THEN [w3 EXCEPT !.ball.vx = 0, !.ball.vy = 0, !.ball.isMoving = FALSE]
              ELSE w3,
        scored |-> FALSE]

\* The first collision rectangle the ball touches, then the goal check.
BallRectPhase(w2) ==
  BallGoalPhase(
    IF FirstRectContact(w2.ball) # 0
    THEN [w2 EXCEPT !.ball =
            BounceOffRect(w2.ball, collisionRects[FirstRectContact(w2.ball)],
                          checkBallRectCollision(
                            w2.ball, collisionRects[FirstRectContact(w2.ball)]))]
    ELSE w2)

\* The first player the ball overlaps, then the rectangles.
BallPlayerPhase(w1) ==
  BallRectPhase(
    IF FirstBallContact(w1) # 0 /\ HasPosition(physOrder[FirstBallContact(w1)])
    THEN handleBallPlayerCollision(w1, physOrder[FirstBallContact(w1)])
    ELSE w1)

\* The ball half of updateBallPhysics: the world after it, and whether the
\* goal branch returned.
BallPhase(w) ==
  IF ~w.ball.isMoving THEN [w |-> w, scored |-> FALSE]
  ELSE BallPlayerPhase([w EXCEPT !.ball = integrateBall(w.ball)])

getSlowMultiplier == SOCCER_SKILLS.slowdown.multiplierPm

\* Step 1 of updatePlayerPhysics for one player: take the next queued
\* input, integrate, record the applied sequence.
ApplyInput(w, id) ==
  LET queued == id \in DOMAIN w.queues /\ Len(w.queues[id]) > 0
      inputs1 == IF queued THEN MapSet(w.inputs, id, Head(w.queues[id]))
                 ELSE w.inputs
      queues1 == IF queued THEN [w.queues EXCEPT ![id] = Tail(@)] ELSE w.queues
      hasInput == id \in DOMAIN inputs1
      player == w.phys[id]
      speed0 == calculateSpeedMultiplier(player.soccerStats.speed)
      speedMultiplier == IF id \in slowedPlayers
                         THEN MulDiv(speed0, getSlowMultiplier, 1000) ELSE speed0
      dragMultiplier == calculateDragMultiplier(player.soccerStats.dribbling)
      w1 == [w EXCEPT !.inputs = inputs1, !.queues = queues1]
  IN IF ~hasInput \/ ~IsOnTeam(player.team) THEN w1
     ELSE [w1 EXCEPT
             !.phys[id] = integratePlayer(player, inputs1[id], dragMultiplier,
                                          speedMultiplier),
             !.lps = MapSet(@, id, inputs1[id].sequence)]

RECURSIVE ApplyInputs(_, _)
ApplyInputs(w, i) ==
  IF i > Len(physOrder) THEN w ELSE ApplyInputs(ApplyInput(w, physOrder[i]), i + 1)

isTouchingBall(w, id) ==
  Dist2(w.ball.x, w.ball.y, w.phys[id].x, w.phys[id].y)
    < (BALL_RADIUS + PLAYER_RADIUS + 20) * (BALL_RADIUS + PLAYER_RADIUS + 20)

handlePlayerCollision(w, id1, id2) ==
  LET p1 == w.phys[id1]
      p2 == w.phys[id2]
      dx == p2.x - p1.x
      dy == p2.y - p1.y
      distance == Sqrt(dx * dx + dy * dy)
      nx == UnitPm(dx, distance)
      ny == UnitPm(dy, distance)
      overlap == 2 * PLAYER_RADIUS - distance
      separationX == MulDiv(nx * overlap, 1, 2000)
      separationY == MulDiv(ny * overlap, 1, 2000)
      pushX == MulDiv(nx, PUSH_FORCE, 1000)
      pushY == MulDiv(ny, PUSH_FORCE, 1000)
  IN [w EXCEPT
        !.nan = @ \/ distance = 0,
        !.phys[id1] = [@ EXCEPT !.x = @ - separationX, !.y = @ - separationY,
                                !.vx = @ - pushX, !.vy = @ - pushY],
        !.phys[id2] = [@ EXCEPT !.x = @ + separationX, !.y = @ + separationY,
                                !.vx = @ + pushX, !.vy = @ + pushY]]

\* Step 2 for a pair with the ninja-step exemption left out.
ResolvePair_NoNinjaStep(w, i, j) ==
  IF \/ ~IsOnTeam(w.phys[physOrder[i]].team)
     \/ ~IsOnTeam(w.phys[physOrder[j]].team)
  THEN w
  ELSE IF Dist2(w.phys[physOrder[i]].x, w.phys[physOrder[i]].y,
                w.phys[physOrder[j]].x, w.phys[physOrder[j]].y)
            < 4 * PLAYER_RADIUS * PLAYER_RADIUS
       THEN handlePlayerCollision(w, physOrder[i], physOrder[j])
       ELSE w

\* Step 2 of updatePlayerPhysics for the pair (i, j) of physOrder.
ResolvePair(w, i, j) ==
  LET id1 == physOrder[i]
      id2 == physOrder[j]
      p1Ghosted == id1 \in ninjaStepPlayers /\ ~isTouchingBall(w, id1)
      p2Ghosted == id2 \in ninjaStepPlayers /\ ~isTouchingBall(w, id2)
      p1Spectator == ~IsOnTeam(w.phys[id1].team)
      p2Spectator == ~IsOnTeam(w.phys[id2].team)
  IN IF p1Ghosted \/ p2Ghosted \/ p1Spectator \/ p2Spectator THEN w
     ELSE IF Dist2(w.phys[id1].x, w.phys[id1].y, w.phys[id2].x, w.phys[id2].y)
               < 4 * PLAYER_RADIUS * PLAYER_RADIUS
          THEN handlePlayerCollision(w, id1, id2)
          ELSE w

RECURSIVE ResolvePairs(_, _, _)
ResolvePairs(w, i, j) ==
  IF i >= Len(physOrder) THEN w
  ELSE IF j > Len(physOrder) THEN ResolvePairs(w, i + 1, i + 2)
  ELSE ResolvePairs(ResolvePair(w, i, j), i, j + 1)

handleBallPlayerKnockback(w, id) ==
  LET player == w.phys[id]
      dx == w.ball.x - player.x
      dy == w.ball.y - player.y
      distance == Sqrt(dx * dx + dy * dy)
      ballSpeed == Sqrt(w.ball.vx * w.ball.vx + w.ball.vy * w.ball.vy)
      nx == -UnitPm(dx, distance)
      ny == -UnitPm(dy, distance)
      knockbackMagnitude ==
        IF IsPowerShot THEN powerShotActivation.knockbackForce
        ELSE Min(MulDiv(ballSpeed, BALL_KNOCKBACK_PM, 1000), BALL_KNOCKBACK_CAP)
  IN IF ballSpeed < BALL_KNOCKBACK_MIN_SPEED THEN w
     ELSE [w EXCEPT
             !.nan = @ \/ distance = 0,
             !.phys[id] =
               [@ EXCEPT !.vx = @ + MulDiv(nx, knockbackMagnitude, 1000),
                         !.vy = @ + MulDiv(ny, knockbackMagnitude, 1000)]]

RECURSIVE Knockbacks(_, _)
Knockbacks(w, i) ==
  IF i > Len(physOrder) THEN w
  ELSE LET id == physOrder[i]
           near == Dist2(w.ball.x, w.ball.y, w.phys[id].x, w.phys[id].y)
                     < (BALL_RADIUS + PLAYER_RADIUS) * (BALL_RADIUS + PLAYER_RADIUS)
       IN Knockbacks(IF near /\ w.ball.isMoving
                     THEN handleBallPlayerKnockback(w, id) ELSE w, i + 1)

\* The spectator wall collision of step 3 against one rect.
PushOutOfRect(player, rect) ==
  LET closestX == ClosestOnRect(player.x, rect.x, rect.width)
      closestY == ClosestOnRect(player.y, rect.y, rect.height)
      dx == player.x - closestX
      dy == player.y - closestY
      d2 == dx * dx + dy * dy
      distance == Sqrt(d2)
      overlap == PLAYER_RADIUS - distance
      dL == player.x - rect.x
      dR == rect.x + rect.width - player.x
      dT == player.y - rect.y
      dB == rect.y + rect.height - player.y
      min == Min(Min(dL, dR), Min(dT, dB))
  IN IF d2 >= PLAYER_RADIUS * PLAYER_RADIUS THEN player
     ELSE IF d2 > 0
          THEN [player EXCEPT
                  !.x = @ + MulDiv(UnitPm(dx, distance) * overlap, 1, 1000),
                  !.y = @ + MulDiv(UnitPm(dy, distance) * overlap, 1, 1000),
                  !.vx = 0, !.vy = 0]
          ELSE IF min = dL THEN [player EXCEPT !.x = rect.x - PLAYER_RADIUS,
                                               !.vx = 0, !.vy = 0]
          ELSE IF min = dR THEN [player EXCEPT !.x = rect.x + rect.width + PLAYER_RADIUS,
                                               !.vx = 0, !.vy = 0]
          ELSE IF min = dT THEN [player EXCEPT !.y = rect.y - PLAYER_RADIUS,
                                               !.vx = 0, !.vy = 0]
          ELSE [player EXCEPT !.y = rect.y + rect.height + PLAYER_RADIUS,
                              !.vx = 0, !.vy = 0]

RECURSIVE PushOutOfRects(_, _)
PushOutOfRects(player, i) ==
  IF i > Len(collisionRects) THEN player
  ELSE PushOutOfRects(PushOutOfRect(player, collisionRects[i]), i + 1)

\* Step 3 of updatePlayerPhysics for one player: the boundary clamp, then
\* the wall collision of a spectator.
ClampPlayer(player) ==
  LET clamped ==
        [player EXCEPT
           !.x = Max(PLAYER_RADIUS, Min(WORLD_WIDTH - PLAYER_RADIUS, player.x)),
           !.y = Max(PLAYER_RADIUS, Min(WORLD_HEIGHT - PLAYER_RADIUS, player.y))]
  IN IF IsOnTeam(player.team) THEN clamped ELSE PushOutOfRects(clamped, 1)

ClampPlayers(w3) ==
  [w3 EXCEPT !.phys = [id \in DOMAIN w3.phys |-> ClampPlayer(w3.phys[id])]]

updatePlayerPhysics(w) ==
  ClampPlayers(Knockbacks(ResolvePairs(ApplyInputs(w, 1), 1, 2), 1))

\* updateBallPhysics ends with updatePlayerPhysics unless a goal was scored.
PlayerPhase(r) == IF r.scored THEN r.w ELSE updatePlayerPhysics(r.w)

updateBallPhysics(w) == PlayerPhase(BallPhase(w))

(***************************************************************************)
(* Resets                                                                  *)
(***************************************************************************)
\* resetAction of resetBall with the sequence not carried over.
ResetBallAction_FreshSequence(w) ==
  [w EXCEPT
     !.ball = [x |-> WORLD_WIDTH \div 2, y |-> WORLD_HEIGHT \div 2, vx |-> 0, vy |-> 0,
               sequence |-> 0, lastTouchId |-> NULL,
               previousTouchId |-> NULL, lastTouchTimestamp |-> 0,
               isMoving |-> FALSE],
     !.goal = FALSE]

\* resetAction of resetBall.
ResetBallAction(w) ==
  [w EXCEPT
     !.ball = [x |-> WORLD_WIDTH \div 2, y |-> WORLD_HEIGHT \div 2, vx |-> 0, vy |-> 0,
               sequence |-> w.ball.sequence + 1, lastTouchId |-> NULL,
               previousTouchId |-> NULL, lastTouchTimestamp |-> 0,
               isMoving |-> FALSE],
     !.goal = FALSE]

\* The ids of joinOrder that are in SoccerMap on the given team.
TeamMembers(team) ==
  SelectSeq(joinOrder,
            LAMBDA id : playerPositions[id].currentScene = "SoccerMap"
                        /\ playerPositions[id].team = team)

RECURSIVE SpawnTeam(_, _, _, _)
SpawnTeam(w, members, spawns, i) ==
  IF i > Len(members) THEN w
  ELSE LET id == members[i]
           spawn == spawns[((i - 1) % Len(spawns)) + 1]
           w1 == IF id \in DOMAIN w.phys
                 THEN [w EXCEPT
                         !.phys[id] = [@ EXCEPT !.x = spawn.x, !.y = spawn.y,
                                                !.vx = 0, !.vy = 0],
                         !.out = Append(@, Msg("soccer:playerReset", id, NULL,
                                               w.ball.sequence, w.tick))]
                 ELSE w
       IN SpawnTeam(w1, members, spawns, i + 1)

\* resetAction of resetAllPlayerPositions without its pass over the blue team.
ResetAllPlayersAction_RedOnly(w) ==
  SpawnTeam(w, TeamMembers("red"), RED_TEAM_SPAWNS, 1)

\* resetAction of resetAllPlayerPositions.
ResetAllPlayersAction(w) ==
  SpawnTeam(SpawnTeam(w, TeamMembers("red"), RED_TEAM_SPAWNS, 1),
            TeamMembers("blue"), BLUE_TEAM_SPAWNS, 1)

DEFAULT_GAME_TIME_MS == 300000

OVERTIME_DURATION_MS == 60000

\* resetGame(): back to LOBBY, ball and players reset without delay.
resetGame(w) ==
  LET w1 == [w EXCEPT !.gameStatus = "LOBBY",
                      !.timers = SelectSeq(@, LAMBDA t : t.kind # "selection"),
                      !.assigned = EmptyMap,
                      !.stats = EmptyMap,
                      !.statOrder = << >>,
                      !.score = [red |-> 0, blue |-> 0],
                      !.gameTimeRemaining = DEFAULT_GAME_TIME_MS,
                      !.isGameActive = FALSE]
  IN ResetAllPlayersAction(ResetBallAction(w1))

\* handleGameEnd: overtime on a tie, otherwise the end of the match.
\* The winner handleGameEnd determines.
Winner(goals) ==
  IF goals.red > goals.blue THEN "red"
  ELSE IF goals.blue > goals.red THEN "blue" ELSE "tie"

\* stats.goals * 10 + stats.assists * 5 + stats.interceptions * 2
MvpScore(stats) == stats.goals * 10 + stats.assists * 5 + stats.interceptions * 2

\* The MVP loop of handleGameEnd over the first i entries of
\* playerMatchStats: the mvp and the highestScore it has then.
RECURSIVE MvpLoop(_, _, _)
MvpLoop(stats, order, i) ==
  IF i = 0 THEN [mvp |-> NULL, highestScore |-> -1]
  ELSE LET r == MvpLoop(stats, order, i - 1)
       IN IF MvpScore(stats[order[i]]) > r.highestScore
          THEN [mvp |-> IF HasPosition(order[i]) THEN order[i] ELSE r.mvp,
                highestScore |-> MvpScore(stats[order[i]])]
          ELSE r

\* What handleGameEnd finds when the clock has run out.
EndOfMatch(w) ==
  [winner |-> Winner(w.score),
   mvp |-> MvpLoop(w.stats, w.statOrder, Len(w.statOrder)).mvp,
   score |-> w.score, stats |-> w.stats]

\* The entries of playerPositions the loop of processMmr works on, in Map
\* order: in SoccerMap and on a team; seen are the entries it has passed.
MmrPlayers(seen) ==
  SelectSeq(joinOrder,
            LAMBDA id : /\ id \notin seen
                        /\ playerPositions[id].currentScene = "SoccerMap"
                        /\ IsOnTeam(playerPositions[id].team))

\* The entries of playerPositions up to the first one processMmr works on.
MmrSeen ==
  {joinOrder[i] : i \in {j \in 1..Len(joinOrder) :
                           \A k \in 1..(j - 1) : joinOrder[k] \notin
                             {MmrPlayers({})[n] : n \in 1..Len(MmrPlayers({}))}}}

\* processMmr() runs up to its first await (findByUserId for the first
\* player) inside handleGameEnd and goes on after handleGameEnd has returned.
\* The pending continuation holds what the closure has read by then: winner,
\* mvp, the first player, its stats and its position entry.  final records
\* the match as handleGameEnd found it; the continuation does not read it.
MmrTimer(e) ==
  [kind |-> "processMmr", fireAt |-> now, player |-> MmrPlayers({})[1],
   skill |-> NULL, affected |-> {}, winner |-> e.winner, mvp |-> e.mvp,
   stats |-> StatsOf(e.stats, MmrPlayers({})[1]),
   team |-> playerPositions[MmrPlayers({})[1]].team, seen |-> MmrSeen, final |-> e]

\* soccer:gameEnd {winner, score, mvp, mmrUpdates}
GameEndMsg(winner, mvp, goals, mmrUpdates, sequence, tick) ==
  [type |-> "soccer:gameEnd", player |-> mvp, team |-> winner, sequence |-> sequence,
   tick |-> tick, score |-> goals, mmrUpdates |-> mmrUpdates]

\* statsRepository.addMatchHistory({...}) for the player
MatchHistory(playerId, team, stats, goals, isMVP, sequence, tick) ==
  [type |-> "addMatchHistory", player |-> playerId, team |-> team,
   sequence |-> sequence, tick |-> tick, goals |-> stats.goals,
   assists |-> stats.assists, interceptions |-> stats.interceptions,
   ourScore |-> IF team = "red" THEN goals.red ELSE goals.blue,
   opponentScore |-> IF team = "red" THEN goals.blue ELSE goals.red,
   isMVP |-> isMVP]

\* The end of the match in handleGameEnd: processMmr() and resetGame().
\* With nobody to process, processMmr emits soccer:gameEnd at once.
EndMatch(w, e) ==
  resetGame([w EXCEPT
               !.isGameActive = FALSE,
               !.ended = e,
               !.timers = IF MmrPlayers({}) = << >> THEN @
                          ELSE Append(@, MmrTimer(e)),
               !.out = IF MmrPlayers({}) = << >>
                       THEN Append(@, GameEndMsg(e.winner, e.mvp, e.score, << >>,
                                                 w.ball.sequence, w.tick))
                       ELSE @])

\* handleGameEnd ending the match on a tie as on any other score.
handleGameEnd_NoOvertime(w) == EndMatch(w, EndOfMatch(w))

handleGameEnd(w) ==
  IF Winner(w.score) = "tie"
  THEN [w EXCEPT !.gameTimeRemaining = OVERTIME_DURATION_MS,
                 !.isGameActive = TRUE,
                 !.out = Append(@, Msg("soccer:overtime", NULL, NULL,
                                       w.ball.sequence, w.tick))]
  ELSE EndMatch(w, EndOfMatch(w))

\* updateGameTimer(io, FIXED_TIMESTEP_SEC), the clock kept in ms.
updateGameTimer(w) ==
  IF ~w.isGameActive THEN w
  ELSE LET remaining == w.gameTimeRemaining - FIXED_TIMESTEP_MS
           \* Math.floor of the remaining seconds before and after
           floorAfter == IF remaining >= 0 THEN remaining \div 1000
                         ELSE -((999 - remaining) \div 1000)
           floorBefore == w.gameTimeRemaining \div 1000
           w1 == [w EXCEPT
                    !.gameTimeRemaining = remaining,
                    !.out = IF floorAfter # floorBefore
                            THEN Append(@, Msg("soccer:timerUpdate", NULL, NULL,
                                               w.ball.sequence, w.tick))
                            ELSE @]
       IN IF remaining <= 0 THEN handleGameEnd(w1) ELSE w1

\* Append to a history buffer and keep the last HISTORY_LEN samples.
PushHistory(history, x, y) ==
  LET h == Append(history, [x |-> x, y |-> y, timestamp |-> now])
  IN IF Len(h) > HISTORY_LEN THEN SubSeq(h, Len(h) - HISTORY_LEN + 1, Len(h)) ELSE h

(***************************************************************************)
(* Bounds of the model                                                     *)
(***************************************************************************)
\* Date.now() when the model starts: later than every cooldown after the epoch.
StartTime == 100000

\* Loop chains and physics steps of the life-cycle specification.
MaxLoops == 2

MaxLoopTick == 1

\* Input specification: largest sequence number sent, queue length, steps.
MaxInputSeq == 2

MaxQueue == 2

MaxInputTick == 3

\* Kick specification: elapsed milliseconds and physics steps.
MaxKickElapsed == 600

MaxKickTick == 2

\* Play specification: elapsed milliseconds and physics steps.
MaxPlayElapsed == 3000

MaxPlayTick == 2

\* Largest ball sequence from which kicks and game resets are explored.
MaxBallSeq == 1

\* Goal specification: elapsed milliseconds and physics steps.
MaxGoalElapsed == 600

MaxGoalTick == 2

(***************************************************************************)
(* The simulation loop                                                     *)
(***************************************************************************)
\* One iteration of the while loop of serverTick: currentTick++,
\* No ball snapshot has been sent yet.
NoSnapshot == [sent |-> FALSE, tick |-> 0, sequence |-> 0]

\* The ball:state messages among the given ones (broadcastBallState).
BallSnapshots(msgs) == {i \in 1..Len(msgs) : msgs[i].type = "ball:state"}

\* The ball snapshot sent last, once the given messages are sent.
SnapshotAfter(msgs) ==
  IF BallSnapshots(msgs) = {} THEN lastSnapshot
  ELSE [sent |-> TRUE,
        tick |-> msgs[CHOOSE i \in BallSnapshots(msgs) :
                        \A j \in BallSnapshots(msgs) : j <= i].tick,
        sequence |-> msgs[CHOOSE i \in BallSnapshots(msgs) :
                            \A j \in BallSnapshots(msgs) : j <= i].sequence]

\* updateBallPhysics, updateGameTimer, recordHistory.
PhysicsStep ==
  /\ runningLoops > 0
  /\ \E w \in {updateGameTimer(updateBallPhysics([World EXCEPT !.tick = currentTick + 1]))} :
        /\ ~w.nan
        /\ ballState' = w.ball
        /\ playerPhysics' = w.phys
        /\ playerInputs' = w.inputs
        /\ playerInputQueues' = w.queues
        /\ lastProcessedSequence' = w.lps
        /\ score' = w.score
        /\ playerMatchStats' = w.stats
        /\ statsOrder' = w.statOrder
        /\ hasScoredGoal' = w.goal
        /\ lastOp' = [op |-> "PhysicsStep", player |-> NULL, arg |-> w.ended,
                      accepted |-> TRUE]
        /\ timers' = w.timers
        /\ gameStatus' = w.gameStatus
        /\ isGameActive' = w.isGameActive
        /\ gameTimeRemaining' = w.gameTimeRemaining
        /\ playerAssignedSkills' = w.assigned
        /\ emitted' = w.out
        /\ ballHistory' = PushHistory(ballHistory, w.ball.x, w.ball.y)
        /\ playerHistory' =
             [id \in DOMAIN playerHistory \cup DOMAIN w.phys |->
                IF id \in DOMAIN w.phys
                THEN PushHistory(IF id \in DOMAIN playerHistory
                                 THEN playerHistory[id] ELSE << >>,
                                 w.phys[id].x, w.phys[id].y)
                ELSE playerHistory[id]]
  /\ currentTick' = currentTick + 1
  /\ lastSnapshot' = SnapshotAfter(emitted')
  /\ UNCHANGED << loopVars, now, sceneVars, physOrder, lastKickTime, kickLog, skillLog,
                  cancelDue, selectionVars, skillVars >>

\* The loop callback is  () => { this.serverTick(io); setImmediate(loop); } :
\* when serverTick throws, the callback is left before setImmediate and that
\* chain is not scheduled again.
LoopThrows ==
  /\ runningLoops > 0
  /\ runningLoops' = runningLoops - 1
  /\ loopThrew' = TRUE
  /\ emitted' = << >>
  /\ lastOp' = [op |-> "LoopThrows", player |-> NULL, arg |-> 0, accepted |-> FALSE]
  /\ UNCHANGED << sockets, activeConnections, updateInterval, replay, tickVars,
                  currentTick, now,
                  sceneVars, playerPhysics, physOrder, inputVars,
                  lastProcessedSequence, ballState, kickVars, hasScoredGoal,
                  score, playerMatchStats, statsOrder, histVars, timers, matchVars, skillVars >>

(***************************************************************************)
(* Connections and scenes                                                  *)
(***************************************************************************)
Op(op, player, arg, accepted) ==
  [op |-> op, player |-> player, arg |-> arg, accepted |-> accepted]

\* Soccer stats a player's record can load (null reads as zeros).
StatChoices == {NoStats, [speed |-> 5, kickPower |-> 5, dribbling |-> 5]}

\* Coordinates a client sends with playerJoin and player:sceneChange.
JoinPoints == {[x |-> 300, y |-> 800], [x |-> 3600, y |-> 800]}

Scenes == {"SoccerMap", "MainMap"}

OrderAdd(order, id) ==
  IF \E i \in 1..Len(order) : order[i] = id THEN order ELSE Append(order, id)

OrderDel(order, id) == SelectSeq(order, LAMBDA x : x # id)

\* startPhysicsLoop: a new setImmediate(loop) chain, the accumulators
\* cleared.  It leaves updateInterval as it is.
startPhysicsLoop ==
  /\ runningLoops' = runningLoops + 1
  /\ lastTime' = now
  /\ accumulator' = 0
  /\ networkAccumulator' = 0

\* new SoccerService(socket, io)
Connect(c) ==
  /\ c \notin sockets
  /\ runningLoops < MaxLoops
  /\ sockets' = sockets \cup {c}
  /\ activeConnections' = activeConnections + 1
  /\ IF updateInterval = NULL THEN startPhysicsLoop
     ELSE UNCHANGED << runningLoops, tickVars >>
  /\ emitted' = << >>
  /\ lastOp' = Op("Connect", c, 0, TRUE)
  /\ UNCHANGED << updateInterval, loopThrew, replay, currentTick, now, sceneVars,
                  playerPhysics, physOrder, inputVars, lastProcessedSequence,
                  ballState, kickVars, hasScoredGoal, score, playerMatchStats, statsOrder,
                  histVars, timers, matchVars, skillVars >>

\* updatePlayerPhysicsState(playerId, state) for a player whose entry in
\* playerPositions has the given team; the result is the new team, the
\* physics record and the messages sent.
updatePlayerPhysicsState(playerId, team, x, y, soccerStats) ==
  LET toSpectator == gameStatus # "LOBBY" \/ team = NULL
      team1 == IF toSpectator THEN "spectator" ELSE team
  IN [team |-> team1,
      phys |-> [x |-> IF toSpectator THEN SPECTATOR_SPAWN.x ELSE x,
                y |-> IF toSpectator THEN SPECTATOR_SPAWN.y ELSE y,
                vx |-> 0, vy |-> 0, team |-> team1, soccerStats |-> soccerStats],
      out |-> IF toSpectator
              THEN << Msg("soccer:teamAssigned", playerId, "spectator",
                          ballState.sequence, currentTick),
                      Msg("soccer:playerReset", playerId, NULL,
                          ballState.sequence, currentTick) >>
              ELSE << >>]

\* removePlayerPhysics(playerId)
removePlayerPhysics(playerId) ==
  /\ playerPhysics' = MapDel(playerPhysics, playerId)
  /\ physOrder' = OrderDel(physOrder, playerId)
  /\ playerInputs' = MapDel(playerInputs, playerId)
  /\ playerInputQueues' = MapDel(playerInputQueues, playerId)

\* GameService.handlePlayerJoin: a fresh entry in playerPositions (no team),
\* and the physics record when the scene is SoccerMap.
PlayerJoin(c, scene, pt, soccerStats) ==
  /\ c \in sockets
  /\ LET r == updatePlayerPhysicsState(c, NULL, pt.x, pt.y, soccerStats)
     IN IF scene = "SoccerMap"
        THEN /\ playerPositions' =
                  MapSet(playerPositions, c, [currentScene |-> scene, team |-> r.team])
             /\ playerPhysics' = MapSet(playerPhysics, c, r.phys)
             /\ physOrder' = OrderAdd(physOrder, c)
             /\ emitted' = r.out
        ELSE /\ playerPositions' =
                  MapSet(playerPositions, c, [currentScene |-> scene, team |-> NULL])
             /\ emitted' = << >>
             /\ UNCHANGED << playerPhysics, physOrder >>
  /\ joinOrder' = OrderAdd(joinOrder, c)
  /\ lastOp' = Op("PlayerJoin", c, 0, TRUE)
  /\ UNCHANGED << loopVars, currentTick, now, inputVars, lastProcessedSequence,
                  ballState, kickVars, hasScoredGoal, score, playerMatchStats, statsOrder,
                  histVars, timers, matchVars, skillVars >>

\* GameService.handleSceneChange
SceneChange(c, newScene, pt, soccerStats) ==
  /\ c \in sockets
  /\ c \in DOMAIN playerPositions
  /\ LET oldScene == playerPositions[c].currentScene
         team == playerPositions[c].team
         r == updatePlayerPhysicsState(c, team, pt.x, pt.y, soccerStats)
     IN /\ IF newScene = "SoccerMap"
           THEN /\ playerPositions' =
                     [playerPositions EXCEPT ![c] =
                        [currentScene |-> newScene, team |-> r.team]]
                /\ playerPhysics' = MapSet(playerPhysics, c, r.phys)
                /\ physOrder' = Append(OrderDel(physOrder, c), c)
                /\ emitted' = r.out
           ELSE /\ playerPositions' =
                     [playerPositions EXCEPT ![c].currentScene = newScene]
                /\ playerPhysics' = MapDel(playerPhysics, c)
                /\ physOrder' = OrderDel(physOrder, c)
                /\ emitted' = << >>
        /\ IF oldScene = "SoccerMap"
           THEN /\ playerInputs' = MapDel(playerInputs, c)
                /\ playerInputQueues' = MapDel(playerInputQueues, c)
           ELSE UNCHANGED << playerInputs, playerInputQueues >>
  /\ lastOp' = Op("SceneChange", c, 0, TRUE)
  /\ UNCHANGED << loopVars, currentTick, now, joinOrder, lastProcessedSequence,
                  ballState, kickVars, hasScoredGoal, score, playerMatchStats, statsOrder,
                  histVars, timers, matchVars, skillVars >>

\* The socket's disconnect listeners: SoccerService.cleanup and
\* GameService.handlePlayerDisconnect.
Disconnect(c) ==
  /\ c \in sockets
  /\ sockets' = sockets \ {c}
  /\ activeConnections' = activeConnections - 1
  /\ ballState' = IF ballState.lastTouchId = c
                  THEN [ballState EXCEPT !.lastTouchId = NULL] ELSE ballState
  /\ IF activeConnections - 1 = 0 /\ updateInterval # NULL
     THEN /\ updateInterval' = NULL
          /\ runningLoops' = 0
     ELSE UNCHANGED << updateInterval, runningLoops >>
  /\ playerPositions' = MapDel(playerPositions, c)
  /\ joinOrder' = OrderDel(joinOrder, c)
  /\ IF c \in DOMAIN playerPositions /\ playerPositions[c].currentScene = "SoccerMap"
     THEN removePlayerPhysics(c)
     ELSE UNCHANGED << playerPhysics, physOrder, playerInputs, playerInputQueues >>
  /\ emitted' = << >>
  /\ lastOp' = Op("Disconnect", c, 0, TRUE)
  /\ cancelDue' = cancelDue \cup {timers[i] : i \in {j \in 1..Len(timers) :
                                                       timers[j].player = c}}
  /\ UNCHANGED << loopThrew, replay, tickVars, currentTick, now, lastProcessedSequence,
                  lastKickTime, kickLog, skillLog, lastSnapshot,
                  hasScoredGoal, score, playerMatchStats, statsOrder, histVars, timers,
                  matchVars, skillVars >>

(***************************************************************************)
(* Time and timers                                                         *)
(***************************************************************************)
\* Date.now() moves on by d milliseconds.
AdvanceClock(d) ==
  /\ now' = now + d
  /\ emitted' = << >>
  /\ lastOp' = Op("AdvanceClock", NULL, d, TRUE)
  /\ UNCHANGED << loopVars, currentTick, sceneVars, playerPhysics, physOrder,
                  inputVars, lastProcessedSequence, ballState, kickVars,
                  hasScoredGoal, score, playerMatchStats, statsOrder, histVars, timers,
                  matchVars, skillVars >>

\* Pending timeouts that have expired.
DueTimers == {i \in 1..Len(timers) : timers[i].fireAt <= now}

\* Node runs expired timeouts by expiry time, then by creation order.
NextTimer ==
  CHOOSE i \in DueTimers :
    \A j \in DueTimers :
      \/ timers[i].fireAt < timers[j].fireAt
      \/ timers[i].fireAt = timers[j].fireAt /\ i <= j

RemoveAt(s, i) == SubSeq(s, 1, i - 1) \o SubSeq(s, i + 1, Len(s))

\* processMmr() after its first await: the writes of the first player, the
\* other players of playerPositions, then soccer:gameEnd.  this.score and
\* this.playerMatchStats are read as they are when the continuation runs.
MmrRows(t) ==
  << [player |-> t.player,
      team |-> IF HasPosition(t.player) THEN playerPositions[t.player].team ELSE t.team,
      stats |-> t.stats] >>
  \o [i \in 1..Len(MmrPlayers(t.seen)) |->
        [player |-> MmrPlayers(t.seen)[i],
         team |-> playerPositions[MmrPlayers(t.seen)[i]].team,
         stats |-> StatsOf(playerMatchStats, MmrPlayers(t.seen)[i])]]

processMmr(t) ==
  [i \in 1..Len(MmrRows(t)) |->
     MatchHistory(MmrRows(t)[i].player, MmrRows(t)[i].team, MmrRows(t)[i].stats, score,
                  t.mvp = MmrRows(t)[i].player, ballState.sequence, currentTick)]
  \o << GameEndMsg(t.winner, t.mvp, score,
                   [i \in 1..Len(MmrRows(t)) |->
                      [player |-> MmrRows(t)[i].player, stats |-> MmrRows(t)[i].stats]],
                   ballState.sequence, currentTick) >>

\* The callback of one expired timeout.
RunTimer(t, rest) ==
  /\ timers' = rest
  /\ lastOp' = Op(t.kind, t.player, 0, TRUE)
  /\ IF t.kind = "resetBall"
     THEN /\ \E w \in {ResetBallAction(World)} :
               /\ ballState' = w.ball
               /\ hasScoredGoal' = w.goal
          /\ emitted' = << >>
          /\ UNCHANGED << playerPhysics, slowedPlayers, metavisionPlayers,
                          lurkingPlayers >>
     ELSE IF t.kind = "resetPlayers"
     THEN /\ \E w \in {ResetAllPlayersAction(World)} :
               /\ playerPhysics' = w.phys
               /\ emitted' = w.out
          /\ UNCHANGED << ballState, hasScoredGoal, slowedPlayers,
                          metavisionPlayers, lurkingPlayers >>
     ELSE IF t.kind = "skillEnd"
     THEN /\ slowedPlayers' = slowedPlayers \ t.affected
          /\ metavisionPlayers' = IF t.skill = "metavision"
                                  THEN metavisionPlayers \ {t.player}
                                  ELSE metavisionPlayers
          /\ emitted' = << Msg("soccer:skillEnded", t.player, NULL,
                               ballState.sequence, currentTick) >>
          /\ UNCHANGED << ballState, hasScoredGoal, playerPhysics, lurkingPlayers >>
     ELSE IF t.kind = "lurkingEnd"
     THEN /\ lurkingPlayers' = MapDel(lurkingPlayers, t.player)
          /\ emitted' = IF t.player \in DOMAIN lurkingPlayers
                        THEN << Msg("soccer:skillEnded", t.player, NULL,
                                    ballState.sequence, currentTick) >>
                        ELSE << >>
          /\ UNCHANGED << ballState, hasScoredGoal, playerPhysics, slowedPlayers,
                          metavisionPlayers >>
     ELSE IF t.kind = "processMmr"
     THEN /\ emitted' = processMmr(t)
          /\ UNCHANGED << ballState, hasScoredGoal, playerPhysics, slowedPlayers,
                          metavisionPlayers, lurkingPlayers >>
     ELSE /\ emitted' = << >>
          /\ UNCHANGED << ballState, hasScoredGoal, playerPhysics, slowedPlayers,
                          metavisionPlayers, lurkingPlayers >>
  /\ UNCHANGED << loopVars, currentTick, now, sceneVars, physOrder, inputVars,
                  lastProcessedSequence, kickVars, score, playerMatchStats, statsOrder,
                  histVars, matchVars, playerSkillCooldowns, ninjaStepPlayers,
                  powerShotActivation, playerBuffs >>

FireTimer ==
  /\ DueTimers # {}
  /\ timers[NextTimer].kind # "selection"
  /\ RunTimer(timers[NextTimer], RemoveAt(timers, NextTimer))

(***************************************************************************)
(* Client events                                                           *)
(***************************************************************************)
\* updatePlayerInput without the cap on the queue.
UpdatePlayerInput_NoCap(playerId, input) ==
  /\ \E queue \in {IF playerId \in DOMAIN playerInputQueues
                   THEN playerInputQueues[playerId] ELSE << >>} :
       IF Len(queue) > 0 /\ queue[Len(queue)].sequence = input.sequence
       THEN /\ playerInputQueues' = MapSet(playerInputQueues, playerId, queue)
            /\ UNCHANGED playerInputs
            /\ lastOp' = Op("updatePlayerInput", playerId, input.sequence, FALSE)
       ELSE /\ playerInputQueues' = MapSet(playerInputQueues, playerId,
                                           Append(queue, input))
            /\ playerInputs' = IF playerId \in DOMAIN playerInputs THEN playerInputs
                               ELSE MapSet(playerInputs, playerId, input)
            /\ lastOp' = Op("updatePlayerInput", playerId, input.sequence, TRUE)
  /\ emitted' = << >>
  /\ UNCHANGED << loopVars, currentTick, now, sceneVars, playerPhysics, physOrder,
                  lastProcessedSequence, ballState, kickVars, hasScoredGoal, score,
                  playerMatchStats, statsOrder, histVars, timers, matchVars, skillVars >>

\* updatePlayerInput(playerId, input); sequence 0 stands for an absent one
\* (input.sequence || 0).
UpdatePlayerInput(playerId, input) ==
  /\ \E queue \in {IF playerId \in DOMAIN playerInputQueues
                   THEN playerInputQueues[playerId] ELSE << >>} :
       IF Len(queue) > 0 /\ queue[Len(queue)].sequence = input.sequence
       THEN /\ playerInputQueues' = MapSet(playerInputQueues, playerId, queue)
            /\ UNCHANGED playerInputs
            /\ lastOp' = Op("updatePlayerInput", playerId, input.sequence, FALSE)
       ELSE /\ \E pushed \in {Append(queue, input)} :
                 playerInputQueues' =
                   MapSet(playerInputQueues, playerId,
                          IF Len(pushed) > MAX_INPUT_QUEUE
                          THEN SubSeq(pushed, Len(pushed) - MAX_INPUT_QUEUE + 1,
                                      Len(pushed))
                          ELSE pushed)
            /\ playerInputs' = IF playerId \in DOMAIN playerInputs THEN playerInputs
                               ELSE MapSet(playerInputs, playerId, input)
            /\ lastOp' = Op("updatePlayerInput", playerId, input.sequence, TRUE)
  /\ emitted' = << >>
  /\ UNCHANGED << loopVars, currentTick, now, sceneVars, playerPhysics, physOrder,
                  lastProcessedSequence, ballState, kickVars, hasScoredGoal, score,
                  playerMatchStats, statsOrder, histVars, timers, matchVars, skillVars >>

\* findClosestHistoryState: the index of the sample it returns, 0 for null.
findClosestHistoryState(history, targetTimestamp) ==
  IF Len(history) = 0 THEN 0
  ELSE LET closest ==
             CHOOSE i \in 1..Len(history) :
               \A j \in 1..Len(history) :
                 \/ Abs(targetTimestamp - history[i].timestamp)
                      < Abs(targetTimestamp - history[j].timestamp)
                 \/ /\ Abs(targetTimestamp - history[i].timestamp)
                         = Abs(targetTimestamp - history[j].timestamp)
                    /\ i <= j
       IN IF Abs(targetTimestamp - history[closest].timestamp) > HISTORY_WINDOW_MS
          THEN 0 ELSE closest

\* The position handleBallKick uses for a body: the rewound sample when
\* data.timestamp is given (non-zero) and a sample is close enough.
Rewound(history, timestamp, current) ==
  IF timestamp # 0 /\ findClosestHistoryState(history, timestamp) # 0
  THEN history[findClosestHistoryState(history, timestamp)]
  ELSE current

HistoryOf(playerId) ==
  IF playerId \in DOMAIN playerHistory THEN playerHistory[playerId] ELSE << >>

\* The checks of handleBallKick after the cooldown: the kicker exists, is
\* on a team and is within kicking distance of the ball.
\* The validation of handleBallKick with the distance check left out.
KickValid_AnyDistance(playerId, timestamp) ==
  /\ playerId \in DOMAIN playerPhysics
  /\ HasPosition(playerId)
  /\ IsOnTeam(playerPositions[playerId].team)

KickValid(playerId, timestamp) ==
  /\ playerId \in DOMAIN playerPhysics
  /\ HasPosition(playerId)
  /\ IsOnTeam(playerPositions[playerId].team)
  /\ \E k \in {Rewound(HistoryOf(playerId), timestamp, playerPhysics[playerId])},
        b \in {Rewound(ballHistory, timestamp, ballState)} :
       Dist2(b.x, b.y, k.x, k.y)
         <= IF playerId \in metavisionPlayers
            THEN KICK_DISTANCE_METAVISION * KICK_DISTANCE_METAVISION
            ELSE KICK_DISTANCE * KICK_DISTANCE

\* The cooldown check with the dribble's 100 ms in place of KICK_COOLDOWN_MS.
KickCooldownOver_Short(playerId) == now - lastKickTime >= DRIBBLE_COOLDOWN_MS

\* The cooldown check at the head of handleBallKick.
KickCooldownOver(playerId) == now - lastKickTime >= KICK_COOLDOWN_MS

\* kickPower stat of the kicker with the power-shot buff while it lasts.
KickPowerStat(playerId) ==
  playerPhysics[playerId].soccerStats.kickPower
    + IF playerId \in DOMAIN playerBuffs /\ now < playerBuffs[playerId].expiresAt
      THEN playerBuffs[playerId].value ELSE 0

Touch(ball, playerId) ==
  [ball EXCEPT !.previousTouchId = IF ball.lastTouchId # playerId
                                   THEN ball.lastTouchId ELSE @,
               !.lastTouchId = playerId,
               !.lastTouchTimestamp = now]

\* handleBallKick(data): data.kickPower 0 stands for an absent one.
HandleBallKick(playerId, angle, kickPower, timestamp) ==
  /\ IF KickCooldownOver(playerId) /\ KickValid(playerId, timestamp)
     THEN /\ lastKickTime' = now
          /\ kickLog' = MapSet(kickLog, playerId,
                               Append(IF playerId \in DOMAIN kickLog
                                      THEN kickLog[playerId] ELSE << >>, now))
          /\ \E v \in {calculateKickVelocity(
                         angle, IF kickPower = 0 THEN BASE_KICK_POWER ELSE kickPower,
                         KickPowerStat(playerId), playerId \in metavisionPlayers)} :
               ballState' = [Touch(ballState, playerId) EXCEPT
                               !.sequence = @ + 1, !.vx = v.vx, !.vy = v.vy,
                               !.isMoving = TRUE]
          /\ playerPhysics' =
               [playerPhysics EXCEPT
                  ![playerId].vx = @ - MulDiv(Cos(angle), KICK_KNOCKBACK, 1000),
                  ![playerId].vy = @ - MulDiv(Sin(angle), KICK_KNOCKBACK, 1000)]
          /\ emitted' = << Msg("ball:kicked", playerId, NULL, ballState.sequence + 1,
                               currentTick),
                           Msg("ball:state", playerId, NULL, ballState.sequence + 1,
                               currentTick) >>
          /\ lastOp' = Op("handleBallKick", playerId, timestamp, TRUE)
          /\ lastSnapshot' = SnapshotAfter(emitted')
          /\ UNCHANGED << cancelDue, skillLog >>
     ELSE /\ emitted' = << >>
          /\ lastOp' = Op("handleBallKick", playerId, timestamp, FALSE)
          /\ UNCHANGED << kickVars, ballState, playerPhysics >>
  /\ UNCHANGED << loopVars, currentTick, now, sceneVars, physOrder, inputVars,
                  lastProcessedSequence, hasScoredGoal, score, playerMatchStats, statsOrder,
                  histVars, timers, matchVars, skillVars >>

\* The checks of handleBallDribble.
DribbleValid(playerId) ==
  /\ now - lastKickTime >= DRIBBLE_COOLDOWN_MS
  /\ HasPosition(playerId)
  /\ IsOnTeam(playerPositions[playerId].team)
  /\ playerId \in DOMAIN playerPhysics
  /\ Dist2(ballState.x, ballState.y, playerPhysics[playerId].x,
           playerPhysics[playerId].y)
       <= MAX_DRIBBLE_DISTANCE * MAX_DRIBBLE_DISTANCE

\* power * cos(atan2(dy, dx)) and power * sin(atan2(dy, dx)); atan2(0, 0) = 0.
Towards(dx, dy, power) ==
  IF dx = 0 /\ dy = 0 THEN [vx |-> power, vy |-> 0]
  ELSE [vx |-> MulDiv(dx, power, Sqrt(dx * dx + dy * dy)),
        vy |-> MulDiv(dy, power, Sqrt(dx * dx + dy * dy))]

\* handleBallDribble(data)
HandleBallDribble(playerId) ==
  /\ IF DribbleValid(playerId)
     THEN /\ \E v \in {Towards(ballState.x - playerPhysics[playerId].x,
                               ballState.y - playerPhysics[playerId].y,
                               DRIBBLE_POWER)} :
               ballState' = [Touch(ballState, playerId) EXCEPT
                               !.vx = v.vx, !.vy = v.vy, !.isMoving = TRUE]
          /\ emitted' = << Msg("ball:state", playerId, NULL, ballState.sequence,
                               currentTick) >>
          /\ lastOp' = Op("handleBallDribble", playerId, 0, TRUE)
     ELSE /\ emitted' = << >>
          /\ lastOp' = Op("handleBallDribble", playerId, 0, FALSE)
          /\ UNCHANGED ballState
  /\ UNCHANGED << loopVars, currentTick, now, sceneVars, playerPhysics, physOrder,
                  inputVars, lastProcessedSequence, lastKickTime, kickLog, skillLog,
                  cancelDue, hasScoredGoal, score, playerMatchStats, statsOrder, histVars,
                  timers, matchVars, skillVars >>
  /\ lastSnapshot' = SnapshotAfter(emitted')

(***************************************************************************)
(* Skills                                                                  *)
(***************************************************************************)
\* playerSkillCooldowns.get(playerId)?.get(skillId) || 0
LastUsed(playerId, skillId) ==
  IF playerId \in DOMAIN playerSkillCooldowns
       /\ skillId \in DOMAIN playerSkillCooldowns[playerId]
  THEN playerSkillCooldowns[playerId][skillId] ELSE 0

\* playerCooldowns.set(skillId, now); playerSkillCooldowns.set(playerId, ...)
UseSkill(playerId, skillId) ==
  MapSet(playerSkillCooldowns, playerId,
         MapSet(IF playerId \in DOMAIN playerSkillCooldowns
                THEN playerSkillCooldowns[playerId] ELSE EmptyMap,
                skillId, now))

\* The head of handleActivateSkill with the ownership check left out.
SkillAllowed_NoOwnership(playerId, skillId) ==
  /\ HasPosition(playerId)
  /\ IsOnTeam(playerPositions[playerId].team)

\* The checks at the head of handleActivateSkill: the player exists, is on
\* a team and, outside the lobby, owns the skill.
SkillAllowed(playerId, skillId) ==
  /\ HasPosition(playerId)
  /\ IsOnTeam(playerPositions[playerId].team)
  /\ gameStatus # "LOBBY" =>
       /\ playerId \in DOMAIN playerAssignedSkills
       /\ playerAssignedSkills[playerId] = skillId

SkillMsg(type, playerId) == Msg(type, playerId, NULL, ballState.sequence, currentTick)

\* Facing directions a client can send; NULL stands for an absent one.
Facings == {"UP", "DOWN", "LEFT", "RIGHT"}

getFacingVector(facing) ==
  CASE facing = "UP" -> [dx |-> 0, dy |-> -1]
    [] facing = "LEFT" -> [dx |-> -1, dy |-> 0]
    [] facing = "RIGHT" -> [dx |-> 1, dy |-> 0]
    [] OTHER -> [dx |-> 0, dy |-> 1]

\* checkBlinkCollision: the point the blink ends at.
checkBlinkCollision(startX, startY, endX, endY, team) ==
  IF ~IsOnTeam(team)
       /\ \E i \in 1..Len(collisionRects) :
            /\ endX >= collisionRects[i].x
            /\ endX <= collisionRects[i].x + collisionRects[i].width
            /\ endY >= collisionRects[i].y
            /\ endY <= collisionRects[i].y + collisionRects[i].height
  THEN [x |-> startX, y |-> startY]
  ELSE [x |-> endX, y |-> endY]

\* The ninja_step branch: a toggle.
NinjaStep(playerId) ==
  /\ ninjaStepPlayers' = IF playerId \in ninjaStepPlayers
                         THEN ninjaStepPlayers \ {playerId}
                         ELSE ninjaStepPlayers \cup {playerId}
  /\ emitted' = << SkillMsg("soccer:skillActivated", playerId) >>
  /\ lastOp' = Op("ninja_step", playerId, 0, TRUE)
  /\ UNCHANGED << ballState, playerPhysics, timers, playerSkillCooldowns,
                  slowedPlayers, metavisionPlayers, lurkingPlayers,
                  powerShotActivation, playerBuffs >>

SkillRejected(playerId, skillId) ==
  /\ emitted' = << >>
  /\ lastOp' = Op(skillId, playerId, 0, FALSE)
  /\ UNCHANGED << ballState, playerPhysics, timers, playerSkillCooldowns,
                  slowedPlayers, metavisionPlayers, ninjaStepPlayers,
                  lurkingPlayers, powerShotActivation, playerBuffs >>

\* Stage 2 of lurking_radius is entered while the player lurks.
Lurking(playerId) ==
  /\ playerId \in DOMAIN lurkingPlayers
  /\ now < lurkingPlayers[playerId]
  /\ playerId \in DOMAIN playerPhysics

\* The intercept without the offset: the player is put on the ball.
InterceptPoint_AtBall(team) ==
  [x |-> Max(0, Min(ballState.x, WORLD_WIDTH)),
   y |-> Max(0, Min(ballState.y, WORLD_HEIGHT))]

\* Where the intercept puts the player.
InterceptPoint(team) ==
  [x |-> Max(0, Min(IF team = "red" THEN ballState.x - INTERCEPT_OFFSET
                    ELSE IF team = "blue" THEN ballState.x + INTERCEPT_OFFSET
                    ELSE ballState.x,
                    WORLD_WIDTH)),
   y |-> Max(0, Min(ballState.y, WORLD_HEIGHT))]

\* Stage 2 of lurking_radius: the intercept.
LurkingIntercept(playerId) ==
  IF Dist2(ballState.x, ballState.y, playerPhysics[playerId].x,
           playerPhysics[playerId].y)
       <= SOCCER_SKILLS.lurking_radius.radius * SOCCER_SKILLS.lurking_radius.radius
  THEN /\ \E pt \in {InterceptPoint(playerPositions[playerId].team)} :
            playerPhysics' = [playerPhysics EXCEPT
                                ![playerId].x = pt.x, ![playerId].y = pt.y,
                                ![playerId].vx = 0, ![playerId].vy = 0]
       /\ ballState' = [ballState EXCEPT !.lastTouchId = playerId,
                                         !.lastTouchTimestamp = now,
                                         !.vx = 0, !.vy = 0]
       /\ lurkingPlayers' = MapDel(lurkingPlayers, playerId)
       /\ emitted' = << SkillMsg("soccer:skillTriggered", playerId),
                        SkillMsg("ball:state", playerId),
                        SkillMsg("players:physicsUpdate", playerId) >>
       /\ lastOp' = Op("lurking_intercept", playerId, 0, TRUE)
       /\ UNCHANGED << timers, playerSkillCooldowns, slowedPlayers,
                       metavisionPlayers, ninjaStepPlayers, powerShotActivation,
                       playerBuffs >>
  ELSE SkillRejected(playerId, "lurking_intercept")

\* Stage 1 of lurking_radius.
LurkingStart(playerId) ==
  IF now - LastUsed(playerId, "lurking_radius") < SOCCER_SKILLS.lurking_radius.cooldownMs
  THEN SkillRejected(playerId, "lurking_radius")
  ELSE /\ playerSkillCooldowns' = UseSkill(playerId, "lurking_radius")
       /\ lurkingPlayers' = MapSet(lurkingPlayers, playerId,
                                   now + SOCCER_SKILLS.lurking_radius.durationMs)
       /\ timers' = Append(timers,
                           Timer("lurkingEnd",
                                 now + SOCCER_SKILLS.lurking_radius.durationMs,
                                 playerId, "lurking_radius", {}))
       /\ emitted' = << SkillMsg("soccer:skillActivated", playerId) >>
       /\ lastOp' = Op("lurking_radius", playerId, 0, TRUE)
       /\ UNCHANGED << ballState, playerPhysics, slowedPlayers, metavisionPlayers,
                       ninjaStepPlayers, powerShotActivation, playerBuffs >>

\* The checks of the power_shot branch.
PowerShotValid(playerId) ==
  /\ playerId \in DOMAIN playerPhysics
  /\ Dist2(ballState.x, ballState.y, playerPhysics[playerId].x,
           playerPhysics[playerId].y) <= POWER_SHOT_RANGE * POWER_SHOT_RANGE

\* The goal a power shot aims at.
PowerShotGoal(team) == [x |-> IF team = "red" THEN 3400 ELSE 120, y |-> 800]

\* The power_shot branch.
PowerShot(playerId) ==
  IF ~PowerShotValid(playerId) THEN SkillRejected(playerId, "power_shot")
  ELSE \E me \in {playerPhysics[playerId]},
          goal \in {PowerShotGoal(playerPositions[playerId].team)} :
       /\ \E v \in {Towards(goal.x - me.x, goal.y - me.y,
                            MulDiv(SOCCER_SKILLS.power_shot.force,
                                   calculateKickPowerMultiplier(me.soccerStats.kickPower),
                                   1000))} :
            ballState' = [ballState EXCEPT !.vx = v.vx, !.vy = v.vy,
                                           !.lastTouchId = playerId,
                                           !.lastTouchTimestamp = now,
                                           !.isMoving = TRUE]
       /\ \E k \in {Towards(goal.x - me.x, goal.y - me.y, KICK_KNOCKBACK)} :
            playerPhysics' = [playerPhysics EXCEPT ![playerId].vx = @ - k.vx,
                                                   ![playerId].vy = @ - k.vy]
       /\ powerShotActivation' =
            [playerId |-> playerId,
             knockbackForce |-> SOCCER_SKILLS.power_shot.knockbackForce,
             ballRetentionPm |-> SOCCER_SKILLS.power_shot.ballRetentionPm,
             expiresAt |-> now + SOCCER_SKILLS.power_shot.activeWindowMs]
       /\ playerBuffs' = MapSet(playerBuffs, playerId,
                                [value |-> POWER_SHOT_BUFF_VALUE,
                                 expiresAt |-> now + POWER_SHOT_BUFF_MS])
       /\ emitted' = << SkillMsg("soccer:skillActivated", playerId),
                        SkillMsg("ball:state", playerId) >>
       /\ lastOp' = Op("power_shot", playerId, 0, TRUE)
       /\ UNCHANGED << timers, playerSkillCooldowns, slowedPlayers,
                       metavisionPlayers, ninjaStepPlayers, lurkingPlayers >>

\* The blink branch when the activator exists and a facing was sent.
Blink(playerId, facing) ==
  /\ \E me \in {playerPhysics[playerId]}, d \in {getFacingVector(facing)} :
       \E pt \in {IF SOCCER_SKILLS.blink.preventWallClip
                  THEN checkBlinkCollision(
                         me.x, me.y, me.x + d.dx * SOCCER_SKILLS.blink.distance,
                         me.y + d.dy * SOCCER_SKILLS.blink.distance, me.team)
                  ELSE [x |-> me.x + d.dx * SOCCER_SKILLS.blink.distance,
                        y |-> me.y + d.dy * SOCCER_SKILLS.blink.distance]} :
         playerPhysics' = [playerPhysics EXCEPT
                             ![playerId].x = pt.x, ![playerId].y = pt.y,
                             ![playerId].vx = 0, ![playerId].vy = 0]
  /\ playerSkillCooldowns' = UseSkill(playerId, "blink")
  /\ emitted' = << SkillMsg("soccer:blinkActivated", playerId) >>
  /\ lastOp' = Op("blink", playerId, 0, TRUE)
  /\ UNCHANGED << ballState, timers, slowedPlayers, metavisionPlayers,
                  ninjaStepPlayers, lurkingPlayers, powerShotActivation,
                  playerBuffs >>

\* Players a slowdown affects: everyone else in SoccerMap.
SlowTargets(playerId) ==
  {q \in DOMAIN playerPositions :
     playerPositions[q].currentScene = "SoccerMap" /\ q # playerId}

\* The tail of handleActivateSkill: the speed effect, skillActivated,
\* metavision and the expiry timeout.
TimedSkill(playerId, skillId) ==
  /\ \E affected \in {IF skillId = "slowdown" THEN SlowTargets(playerId) ELSE {}} :
       /\ slowedPlayers' = slowedPlayers \cup affected
       /\ playerPhysics' =
            [q \in DOMAIN playerPhysics |->
               IF q \in affected
               THEN [playerPhysics[q] EXCEPT
                       !.vx = MulDiv(@, SOCCER_SKILLS.slowdown.multiplierPm, 1000),
                       !.vy = MulDiv(@, SOCCER_SKILLS.slowdown.multiplierPm, 1000)]
               ELSE playerPhysics[q]]
       /\ timers' = Append(timers, Timer("skillEnd",
                                         now + SOCCER_SKILLS[skillId].durationMs,
                                         playerId, skillId, affected))
  /\ playerSkillCooldowns' = UseSkill(playerId, skillId)
  /\ metavisionPlayers' = IF skillId = "metavision"
                          THEN metavisionPlayers \cup {playerId}
                          ELSE metavisionPlayers
  /\ emitted' = << SkillMsg("soccer:skillActivated", playerId) >>
  /\ lastOp' = Op(skillId, playerId, 0, TRUE)
  /\ UNCHANGED << ballState, ninjaStepPlayers, lurkingPlayers, powerShotActivation,
                  playerBuffs >>

\* handleActivateSkill(data); facing NULL stands for no facingDirection.
HandleActivateSkill(playerId, skillId, facing) ==
  /\ IF ~SkillAllowed(playerId, skillId) THEN SkillRejected(playerId, skillId)
     ELSE IF skillId = "ninja_step" THEN NinjaStep(playerId)
     ELSE IF skillId = "lurking_radius"
     THEN IF Lurking(playerId) THEN LurkingIntercept(playerId)
          ELSE LurkingStart(playerId)
     ELSE IF skillId = "power_shot" THEN PowerShot(playerId)
     ELSE IF now - LastUsed(playerId, skillId) < SOCCER_SKILLS[skillId].cooldownMs
     THEN SkillRejected(playerId, skillId)
     ELSE IF skillId = "blink" /\ playerId \in DOMAIN playerPhysics /\ facing # NULL
     THEN Blink(playerId, facing)
     ELSE TimedSkill(playerId, skillId)
  /\ lastSnapshot' = SnapshotAfter(emitted')
  /\ skillLog' = IF lastOp'.accepted /\ lastOp'.op \in SkillIds
                 THEN MapSet(skillLog, << playerId, skillId >>, now)
                 ELSE skillLog
  /\ UNCHANGED << loopVars, currentTick, now, sceneVars, physOrder, inputVars,
                  lastProcessedSequence, lastKickTime, kickLog, cancelDue,
                  hasScoredGoal, score, playerMatchStats, statsOrder, histVars, matchVars >>

\* handleResetGame()
HandleResetGame ==
  /\ \E w \in {resetGame(World)} :
       /\ ballState' = w.ball
       /\ playerPhysics' = w.phys
       /\ score' = w.score
       /\ playerMatchStats' = w.stats
       /\ statsOrder' = w.statOrder
       /\ hasScoredGoal' = w.goal
       /\ timers' = w.timers
       /\ gameStatus' = w.gameStatus
       /\ isGameActive' = w.isGameActive
       /\ gameTimeRemaining' = w.gameTimeRemaining
       /\ playerAssignedSkills' = w.assigned
       /\ emitted' = Append(w.out, Msg("soccer:gameReset", NULL, NULL,
                                       w.ball.sequence, currentTick))
  /\ lastOp' = Op("handleResetGame", NULL, 0, TRUE)
  /\ cancelDue' = cancelDue \cup {timers[i] : i \in 1..Len(timers)}
  /\ UNCHANGED << loopVars, currentTick, now, sceneVars, physOrder, inputVars,
                  lastProcessedSequence, lastKickTime, kickLog, skillLog, lastSnapshot,
                  histVars, selectionVars, skillVars >>

NoPowerShot ==
  [playerId |-> NULL, knockbackForce |-> 0, ballRetentionPm |-> 0, expiresAt |-> 0]

\* The state in which the given clients are connected and have the given
\* entries in playerPositions and playerPhysics (order: insertion order),
\* with the ball as given; every connection has started a loop chain.
\* The match is as given by status, remaining (gameTimeRemaining), goals
\* (score) and assigned (playerAssignedSkills): outside the lobby the
\* players with a skill were picked for in the order of joining.  stats is
\* playerMatchStats and statOrder the order in which its entries were made.
SetUpStats(clients, positions, order, phys, ball, status, remaining, goals, assigned, second, stats, statOrder) ==
  /\ replay = second
  /\ sockets = clients
  /\ activeConnections = Cardinality(clients)
  /\ updateInterval = NULL
  /\ runningLoops = Cardinality(clients)
  /\ lastTime = StartTime
  /\ accumulator = 0
  /\ networkAccumulator = 0
  /\ loopThrew = FALSE
  /\ currentTick = 0
  /\ now = StartTime
  /\ playerPositions = positions
  /\ joinOrder = order
  /\ playerPhysics = phys
  /\ physOrder = order
  /\ playerInputs = EmptyMap
  /\ playerInputQueues = EmptyMap
  /\ lastProcessedSequence = EmptyMap
  /\ ballState = ball
  /\ lastKickTime = 0
  /\ kickLog = EmptyMap
  /\ cancelDue = {}
  /\ lastSnapshot = NoSnapshot
  /\ skillLog = EmptyMap
  /\ hasScoredGoal = FALSE
  /\ score = goals
  /\ playerMatchStats = stats
  /\ statsOrder = statOrder
  /\ ballHistory = << >>
  /\ playerHistory = EmptyMap
  /\ timers = << >>
  /\ gameStatus = status
  /\ isGameActive = (status = "ACTIVE")
  /\ gameTimeRemaining = remaining
  /\ playerAssignedSkills = assigned
  /\ selectionOrder = SelectSeq(order, LAMBDA id : id \in DOMAIN assigned)
  /\ currentPickerIndex = IF status = "LOBBY" THEN -1 ELSE Cardinality(DOMAIN assigned)
  /\ availableSkillIds = IF status = "LOBBY" THEN {}
                         ELSE SkillIds \ {assigned[id] : id \in DOMAIN assigned}
  /\ midGamePickers = {}
  /\ pickLog = SelectSeq(order, LAMBDA id : id \in DOMAIN assigned)
  /\ playerSkillCooldowns = EmptyMap
  /\ slowedPlayers = {}
  /\ metavisionPlayers = {}
  /\ ninjaStepPlayers = {}
  /\ lurkingPlayers = EmptyMap
  /\ powerShotActivation = NoPowerShot
  /\ playerBuffs = EmptyMap
  /\ emitted = << >>
  /\ lastOp = Op("Init", NULL, 0, TRUE)

\* The same before any match stat is recorded.
SetUpReplay(clients, positions, order, phys, ball, status, remaining, goals, assigned, second) ==
  SetUpStats(clients, positions, order, phys, ball, status, remaining, goals, assigned,
             second, EmptyMap, << >>)

\* The service alone: no second run of the kernel beside it.
SetUpMatch(clients, positions, order, phys, ball, status, remaining, goals, assigned) ==
  SetUpReplay(clients, positions, order, phys, ball, status, remaining, goals, assigned,
              NULL)

\* The same in the lobby, before any match.
SetUp(clients, positions, order, phys, ball) ==
  SetUpMatch(clients, positions, order, phys, ball, "LOBBY", DEFAULT_GAME_TIME_MS,
             [red |-> 0, blue |-> 0], EmptyMap)

\* The process after start-up, before any client has connected.
Init == SetUp({}, EmptyMap, << >>, EmptyMap, InitialBall)

\* A player in SoccerMap on a team, at rest at (x, y).
Body(team, x, y, soccerStats) ==
  [x |-> x, y |-> y, vx |-> 0, vy |-> 0, team |-> team, soccerStats |-> soccerStats]

InMap(team) == [currentScene |-> "SoccerMap", team |-> team]

(***************************************************************************)
(* Specification of the loop life cycle: clients connect, join and leave   *)
(* SoccerMap and disconnect while the loop ticks.                          *)
(***************************************************************************)
\* The clients and the join data of this specification.
LoopClients == {"a", "b"}

LoopPoints == {[x |-> 300, y |-> 800]}

LoopStats == {NoStats}

NextLoop ==
  \/ \E c \in LoopClients : Connect(c)
  \/ \E c \in LoopClients, scene \in Scenes, pt \in LoopPoints, st \in LoopStats :
       PlayerJoin(c, scene, pt, st)
  \/ \E c \in LoopClients, scene \in Scenes, pt \in LoopPoints, st \in LoopStats :
       SceneChange(c, scene, pt, st)
  \/ \E c \in LoopClients : Disconnect(c)
  \/ (currentTick < MaxLoopTick /\ PhysicsStep)
  \/ LoopThrows

SpecLoop == Init /\ [][NextLoop]_vars

\* C1: the number of running physics loops is 0 or 1, and it is 1 exactly
\* when at least one player is in SoccerMap.
C1_SingleLoopTiedToSoccerMap ==
  /\ runningLoops \in {0, 1}
  /\ runningLoops = 1 <=>
       \E p \in DOMAIN playerPositions : playerPositions[p].currentScene = "SoccerMap"

\* C5: a loop callback that throws out of a physics step leaves the loop
\* running: the number of loop chains that will tick again is unchanged.
C5_LoopSurvivesException ==
  [][lastOp'.op = "LoopThrows" => runningLoops' = runningLoops]_vars

(***************************************************************************)
(* Specification of the input path: one player on a team sends inputs in   *)
(* any order of sequence numbers while the loop ticks.                     *)
(***************************************************************************)
InitInput ==
  SetUp({"a"}, [p \in {"a"} |-> InMap("red")], << "a" >>,
        [p \in {"a"} |-> Body("red", 1413, 515, NoStats)], InitialBall)

\* Key states a client sends.
InputKeys == {[up |-> FALSE, down |-> FALSE, left |-> FALSE, right |-> TRUE],
              [up |-> FALSE, down |-> FALSE, left |-> FALSE, right |-> FALSE]}

Input(keys, sequence) ==
  [up |-> keys.up, down |-> keys.down, left |-> keys.left, right |-> keys.right,
   sequence |-> sequence]

QueueLen(playerId) ==
  IF playerId \in DOMAIN playerInputQueues THEN Len(playerInputQueues[playerId])
  ELSE 0

NextInput ==
  \/ \E keys \in InputKeys, sequence \in 1..MaxInputSeq :
       /\ QueueLen("a") < MaxQueue
       /\ UpdatePlayerInput("a", Input(keys, sequence))
  \/ (currentTick < MaxInputTick /\ PhysicsStep)

SpecInput == InitInput /\ [][NextInput]_vars

\* C2: lastProcessedSequence of a player never decreases.
C2_ProcessedSequenceMonotonic ==
  [][\A p \in DOMAIN lastProcessedSequence :
       /\ p \in DOMAIN lastProcessedSequence'
       /\ lastProcessedSequence'[p] >= lastProcessedSequence[p]]_vars

\* C3: an input whose sequence is at most lastProcessedSequence of its
\* player is dropped: no state changes and nothing is sent.
C3_StaleInputDropped ==
  [][(/\ lastOp'.op = "updatePlayerInput"
      /\ lastOp'.player \in DOMAIN lastProcessedSequence
      /\ lastOp'.arg <= lastProcessedSequence[lastOp'.player])
     => /\ emitted' = << >>
        /\ UNCHANGED << loopVars, currentTick, now, sceneVars, playerPhysics,
                        physOrder, inputVars, lastProcessedSequence, ballState,
                        kickVars, hasScoredGoal, score, playerMatchStats, statsOrder, histVars,
                        timers, matchVars, skillVars >>]_vars

(***************************************************************************)
(* Specification of kicks: two players of opposite teams stand next to     *)
(* the ball and kick while time passes and the loop ticks.                 *)
(***************************************************************************)
InitKick ==
  SetUp({"a", "b"}, [p \in {"a", "b"} |-> InMap(IF p = "a" THEN "red" ELSE "blue")],
        << "a", "b" >>,
        [p \in {"a", "b"} |->
           IF p = "a" THEN Body("red", 1660, 800, NoStats)
           ELSE Body("blue", 1860, 800, NoStats)],
        InitialBall)

KickAngles == {"E", "N"}

KickClockSteps == {100, 200}

NextKick ==
  \/ \E p \in {"a", "b"}, angle \in KickAngles, timestamp \in {0, now} :
       HandleBallKick(p, angle, 0, timestamp)
  \/ \E d \in KickClockSteps :
       /\ now + d <= StartTime + MaxKickElapsed
       /\ AdvanceClock(d)
  \/ (currentTick < MaxKickTick /\ PhysicsStep)

SpecKick == InitKick /\ [][NextKick]_vars

\* C6: any two accepted kicks by the same player are at least
\* KICK_COOLDOWN_MS apart.
C6_KicksOfPlayerApart ==
  \A p \in DOMAIN kickLog :
    \A i, j \in 1..Len(kickLog[p]) :
      i < j => kickLog[p][j] - kickLog[p][i] >= KICK_COOLDOWN_MS

\* A player has had two kicks accepted.
C6_Witness ==
  \E p \in DOMAIN kickLog : Len(kickLog[p]) >= 2

\* The player's own previous accepted kick, if any, is KICK_COOLDOWN_MS old.
OwnKickOldEnough(q) ==
  q \notin DOMAIN kickLog
    \/ now - kickLog[q][Len(kickLog[q])] >= KICK_COOLDOWN_MS

\* C7: a kick by q that passes the team and distance checks is accepted
\* whenever q's own previous accepted kick is at least KICK_COOLDOWN_MS old.
C7_CooldownPerPlayer ==
  [][\A q \in Players :
       (/\ lastOp'.op = "handleBallKick"
        /\ lastOp'.player = q
        /\ KickValid(q, lastOp'.arg)
        /\ OwnKickOldEnough(q))
       => lastOp'.accepted]_vars

(***************************************************************************)
(* Specification of play around the ball: one red player next to the ball, *)
(* either by the left touch line or in front of the red goal, kicks,       *)
(* dribbles and uses skills while time passes, timeouts run and the loop   *)
(* ticks.                                                                  *)
(***************************************************************************)
BallAt(x, y) == [InitialBall EXCEPT !.x = x, !.y = y]

InitPlay ==
  \/ SetUp({"a"}, [p \in {"a"} |-> InMap("red")], << "a" >>,
           [p \in {"a"} |-> Body("red", 90, 300, NoStats)], BallAt(50, 300))
  \/ SetUp({"a"}, [p \in {"a"} |-> InMap("red")], << "a" >>,
           [p \in {"a"} |-> Body("red", 250, 800, NoStats)], BallAt(170, 800))

PlayAngles == {"W", "E"}

PlaySkills == {"power_shot", "lurking_radius", "blink"}

PlayFacings == {"LEFT"}

PlayClockSteps == {3000}

NextPlay ==
  \/ \E angle \in PlayAngles :
       /\ ballState.sequence < MaxBallSeq
       /\ HandleBallKick("a", angle, 0, 0)
  \/ HandleBallDribble("a")
  \/ \E skillId \in PlaySkills, facing \in PlayFacings :
       /\ skillId = "power_shot" => ~IsPowerShot
       /\ HandleActivateSkill("a", skillId, facing)
  \/ (ballState.sequence < MaxBallSeq /\ HandleResetGame)
  \/ \E d \in PlayClockSteps :
       /\ now + d <= StartTime + MaxPlayElapsed
       /\ AdvanceClock(d)
  \/ FireTimer
  \/ (currentTick < MaxPlayTick /\ PhysicsStep)

SpecPlay == InitPlay /\ [][NextPlay]_vars

\* Handlers that replace the ball's velocity or teleport the ball.
BallEvents ==
  {"handleBallKick", "handleBallDribble", "power_shot", "lurking_intercept",
   "resetBall", "handleResetGame"}

\* C4: every accepted kick, dribble, power shot, lurking intercept, goal
\* reset and game reset strictly increases ballState.sequence.
C4_BallEventsAdvanceSequence ==
  [][(lastOp'.op \in BallEvents /\ lastOp'.accepted)
     => ballState'.sequence > ballState.sequence]_vars

InPitch(body) ==
  /\ BALL_RADIUS <= body.x
  /\ body.x <= WORLD_WIDTH - BALL_RADIUS
  /\ BALL_RADIUS <= body.y
  /\ body.y <= WORLD_HEIGHT - BALL_RADIUS

\* C8: after every physics step the ball centre is in
\* [30, 3490] x [30, 1570].
C8_BallInsidePitch ==
  lastOp.op = "PhysicsStep" => InPitch(ballState)

\* C9: after every physics step and after every blink and lurking
\* intercept, every player's centre is in [30, 3490] x [30, 1570].
C9_PlayersInsidePitch ==
  (lastOp.op \in {"PhysicsStep", "blink", "lurking_intercept"} /\ lastOp.accepted)
    => \A p \in DOMAIN playerPhysics : InPitch(playerPhysics[p])

(***************************************************************************)
(* Specification of goals: two red players and a blue player stand behind  *)
(* the ball in front of a goal and kick; time passes and the loop ticks.   *)
(***************************************************************************)
GoalTeams == [p \in {"a", "b", "c"} |-> IF p = "c" THEN "blue" ELSE "red"]

GoalRows == [p \in {"a", "b", "c"} |-> IF p = "a" THEN 800 ELSE IF p = "b" THEN 720 ELSE 880]

InitGoal ==
  \/ SetUp({"a", "b", "c"}, [p \in {"a", "b", "c"} |-> InMap(GoalTeams[p])],
           << "a", "b", "c" >>,
           [p \in {"a", "b", "c"} |-> Body(GoalTeams[p], 3250, GoalRows[p], NoStats)],
           BallAt(3350, 800))
  \/ SetUp({"a", "b", "c"}, [p \in {"a", "b", "c"} |-> InMap(GoalTeams[p])],
           << "a", "b", "c" >>,
           [p \in {"a", "b", "c"} |-> Body(GoalTeams[p], 270, GoalRows[p], NoStats)],
           BallAt(170, 800))

GoalAngles == {"E", "W"}

GoalClockSteps == {300}

NextGoal ==
  \/ \E p \in {"a", "b", "c"}, angle \in GoalAngles : HandleBallKick(p, angle, 0, 0)
  \/ \E d \in GoalClockSteps :
       /\ now + d <= StartTime + MaxGoalElapsed
       /\ AdvanceClock(d)
  \/ (currentTick < MaxGoalTick /\ PhysicsStep)

SpecGoal == InitGoal /\ [][NextGoal]_vars

\* The goal:scored messages among the given ones.
GoalsScored(msgs) == {i \in 1..Len(msgs) : msgs[i].type = "goal:scored"}

\* C10: when goal:scored is emitted, the ball is in a goal zone in that
\* step, the scoring team is the other team than the zone's, exactly that
\* team's score rises by 1, and a player gains an assist only if it is
\* previousTouchId and on the team of the scorer lastTouchId.
C10_GoalAwardedCorrectly ==
  [][\A i \in GoalsScored(emitted') :
       /\ \E z \in 1..Len(goalZones) :
            /\ checkBallGoalCollision(ballState', goalZones[z])
            /\ emitted'[i].team \in Teams
            /\ emitted'[i].team # goalZones[z].team
       /\ score' = [score EXCEPT ![emitted'[i].team] = @ + 1]
       /\ \A p \in Players :
            StatsOf(playerMatchStats', p).assists > StatsOf(playerMatchStats, p).assists
            => /\ p = ballState'.previousTouchId
               /\ ballState'.lastTouchId \in DOMAIN playerPositions
               /\ playerPositions[p].team
                    = playerPositions[ballState'.lastTouchId].team]_vars

\* A goal has just been scored and its assist credited.
C10_Witness ==
  /\ GoalsScored(emitted) # {}
  /\ \E p \in DOMAIN playerMatchStats : playerMatchStats[p].assists > 0

(***************************************************************************)
(* Specification of a goal and the three seconds before its reset: a red   *)
(* player scores, the game may be reset, the player may re-enter SoccerMap *)
(* beside the ball and shoot again.  The loop ticks once per 16 ms of the  *)
(* clock and an expired timeout runs before anything else.                 *)
(***************************************************************************)
\* Milliseconds of the clock, physics steps, and the step up to which
\* client events arrive.
MaxResetElapsed == 3056

MaxResetTick == 191

MaxResetEventTick == 3

InitReset ==
  SetUp({"a"}, [p \in {"a"} |-> InMap("red")], << "a" >>,
        [p \in {"a"} |-> Body("red", 3250, 800, NoStats)], BallAt(3350, 800))

\* Where the player re-enters SoccerMap.
ResetPoints == {[x |-> 1600, y |-> 800]}

\* A goal reset is pending: its resetAction has not run yet.
GoalResetPending == \E i \in 1..Len(timers) : timers[i].kind = "resetBall"

NextReset ==
  \/ /\ DueTimers = {}
     /\ currentTick <= MaxResetEventTick
     /\ \/ (ballState.sequence < MaxBallSeq /\ HandleBallKick("a", "E", 0, 0))
        \/ (hasScoredGoal /\ HandleResetGame)
        \/ \E pt \in ResetPoints : SceneChange("a", "SoccerMap", pt, NoStats)
        \/ (~IsPowerShot /\ HandleActivateSkill("a", "power_shot", "RIGHT"))
  \/ /\ DueTimers = {}
     /\ currentTick * FIXED_TIMESTEP_MS >= now - StartTime
     /\ now + FIXED_TIMESTEP_MS <= StartTime + MaxResetElapsed
     /\ AdvanceClock(FIXED_TIMESTEP_MS)
  \/ FireTimer
  \/ /\ DueTimers = {}
     /\ currentTick < MaxResetTick
     /\ (currentTick + 1) * FIXED_TIMESTEP_MS <= now - StartTime
     /\ PhysicsStep

SpecReset == InitReset /\ [][NextReset]_vars

\* C11: while a goal reset is pending (from the step that awards a goal
\* until the ball-reset callback of that goal has run) no goal is awarded
\* and no score rises, whatever handlers run in between.
C11_NoGoalWhileResetPending ==
  [][GoalResetPending =>
       /\ GoalsScored(emitted') = {}
       /\ score'.red <= score.red
       /\ score'.blue <= score.blue]_vars

(***************************************************************************)
(* Specification of the one-shot timers: a red and a blue player in front  *)
(* of a goal; skills with a duration are activated, a goal may be scored,  *)
(* the game is reset, clients disconnect, time passes and timeouts run.    *)
(***************************************************************************)
MaxTimerElapsed == 5000

MaxTimerTick == 2

MaxTimerSeq == 2

InitTimers ==
  SetUp({"a", "b"}, [p \in {"a", "b"} |-> InMap(IF p = "a" THEN "red" ELSE "blue")],
        << "a", "b" >>,
        [p \in {"a", "b"} |->
           Body(IF p = "a" THEN "red" ELSE "blue", 3250, IF p = "a" THEN 800 ELSE 880,
                NoStats)],
        BallAt(3350, 800))

TimerSkills == {"slowdown", "lurking_radius"}

TimerClockSteps == {5000}

NextTimers ==
  \/ \E skillId \in TimerSkills : HandleActivateSkill("a", skillId, NULL)
  \/ (ballState.sequence < MaxBallSeq /\ HandleBallKick("a", "E", 0, 0))
  \/ (ballState.sequence < MaxTimerSeq /\ HandleResetGame)
  \/ Disconnect("a")
  \/ \E d \in TimerClockSteps :
       /\ now + d <= StartTime + MaxTimerElapsed
       /\ AdvanceClock(d)
  \/ FireTimer
  \/ (currentTick < MaxTimerTick /\ PhysicsStep)

SpecTimers == InitTimers /\ [][NextTimers]_vars

\* C12: a timeout that was pending at a game reset, or at the disconnect of
\* its player, does not run afterwards to change the simulation state or to
\* emit an event.
C12_TimersCancelled ==
  [][(/\ DueTimers # {}
      /\ timers' = RemoveAt(timers, NextTimer)
      /\ lastOp'.op = timers[NextTimer].kind
      /\ timers[NextTimer] \in cancelDue)
     => /\ emitted' = << >>
        /\ UNCHANGED << ballState, hasScoredGoal, playerPhysics, slowedPlayers,
                        metavisionPlayers, lurkingPlayers >>]_vars


(***************************************************************************)
(* Skill selection.  The handlers work on a record s of the fields they    *)
(* write: status (gameStatus), idx (currentPickerIndex), order, avail,     *)
(* assigned, mid (midGamePickers), picks (pickLog), timers, the match      *)
(* clock, score, phys and out (the messages sent).  The selection timer is *)
(* the entry of kind "selection" of timers: at most one is pending.        *)
(***************************************************************************)
PICK_TURN_MS == 30000

Selection ==
  [status |-> gameStatus, idx |-> currentPickerIndex, order |-> selectionOrder,
   avail |-> availableSkillIds, assigned |-> playerAssignedSkills,
   mid |-> midGamePickers, picks |-> pickLog, timers |-> timers,
   isGameActive |-> isGameActive, gameTimeRemaining |-> gameTimeRemaining,
   score |-> score, phys |-> playerPhysics, out |-> << >>]

SelMsg(type, playerId) == Msg(type, playerId, NULL, ballState.sequence, currentTick)

\* startGame(io)
startGame(s) ==
  [s EXCEPT !.isGameActive = TRUE,
            !.gameTimeRemaining = DEFAULT_GAME_TIME_MS,
            !.score = [red |-> 0, blue |-> 0],
            !.out = Append(@, SelMsg("soccer:gameStarted", NULL))]

\* clearTimeout(selectionTimer)
ClearSelectionTimer(ts) == SelectSeq(ts, LAMBDA t : t.kind # "selection")

\* nextSelectionTurn(io), the team of a picker read from positions
RECURSIVE nextSelectionTurn(_, _)
nextSelectionTurn(s, positions) ==
  IF s.idx >= Len(s.order) \/ s.avail = {}
  THEN startGame([s EXCEPT !.timers = ClearSelectionTimer(@),
                           !.status = "ACTIVE"])
  ELSE IF \/ s.order[s.idx + 1] \notin DOMAIN positions
          \/ ~IsOnTeam(positions[s.order[s.idx + 1]].team)
  THEN nextSelectionTurn([s EXCEPT !.timers = ClearSelectionTimer(@),
                                   !.idx = @ + 1], positions)
  ELSE [s EXCEPT
          !.timers = Append(ClearSelectionTimer(@),
                            Timer("selection", now + PICK_TURN_MS,
                                  s.order[s.idx + 1], NULL, {})),
          !.out = Append(@, SelMsg("soccer:selectionUpdate", s.order[s.idx + 1]))]

\* The number of players of positions in SoccerMap on the team.
TeamCount(positions, team) ==
  Cardinality({id \in DOMAIN positions :
                 /\ positions[id].team = team
                 /\ positions[id].currentScene = "SoccerMap"})

\* The spawn point resetPlayerPosition chooses for a player of the team.
SpawnFor(positions, team) ==
  IF team = "spectator" THEN SPECTATOR_SPAWN
  ELSE LET spawns == IF team = "red" THEN RED_TEAM_SPAWNS ELSE BLUE_TEAM_SPAWNS
           spawnIndex == Min(TeamCount(positions, team) - 1, Len(spawns) - 1)
       IN IF spawnIndex < 0 THEN spawns[1] ELSE spawns[spawnIndex + 1]

\* resetPlayerPosition(playerId, team)
resetPlayerPosition(s, positions, playerId, team) ==
  IF playerId \notin DOMAIN positions \/ playerId \notin DOMAIN s.phys THEN s
  ELSE [s EXCEPT
          !.phys[playerId] = [@ EXCEPT !.x = SpawnFor(positions, team).x,
                                       !.y = SpawnFor(positions, team).y,
                                       !.vx = 0, !.vy = 0],
          !.out = Append(@, SelMsg("soccer:playerReset", playerId))]

\* The branch of performPick after the skill is assigned and announced.
PickOutcome(s, positions, playerId) ==
  IF playerId \in s.mid
  THEN IF playerId \in DOMAIN positions /\ positions[playerId].team # NULL
       THEN resetPlayerPosition([s EXCEPT !.mid = @ \ {playerId}], positions,
                                playerId, positions[playerId].team)
       ELSE [s EXCEPT !.mid = @ \ {playerId}]
  ELSE nextSelectionTurn([s EXCEPT !.idx = @ + 1], positions)

\* performPick without the filter of availableSkillIds.
performPick_KeepsAvailable(s, positions, playerId, skillId) ==
  PickOutcome([s EXCEPT
                 !.assigned = MapSet(@, playerId, skillId),
                 !.picks = IF s.status = "SKILL_SELECTION"
                           THEN Append(@, playerId) ELSE @,
                 !.out = Append(@, SelMsg("soccer:skillPicked", playerId))],
              positions, playerId)

\* performPick(io, playerId, skillId); a pick made while the selection
\* phase runs is entered in picks.
performPick(s, positions, playerId, skillId) ==
  PickOutcome([s EXCEPT
                 !.assigned = MapSet(@, playerId, skillId),
                 !.avail = @ \ {skillId},
                 !.picks = IF s.status = "SKILL_SELECTION"
                           THEN Append(@, playerId) ELSE @,
                 !.out = Append(@, SelMsg("soccer:skillPicked", playerId))],
              positions, playerId)

\* The fields of s written back to the service.
SelectionWritten(s) ==
  /\ gameStatus' = s.status
  /\ currentPickerIndex' = s.idx
  /\ selectionOrder' = s.order
  /\ availableSkillIds' = s.avail
  /\ playerAssignedSkills' = s.assigned
  /\ midGamePickers' = s.mid
  /\ pickLog' = s.picks
  /\ timers' = s.timers
  /\ isGameActive' = s.isGameActive
  /\ gameTimeRemaining' = s.gameTimeRemaining
  /\ score' = s.score
  /\ playerPhysics' = s.phys
  /\ emitted' = s.out

\* What no selection handler writes.
SelectionKept ==
  UNCHANGED << loopVars, currentTick, now, joinOrder, physOrder, inputVars,
               lastProcessedSequence, ballState, kickVars, hasScoredGoal,
               playerMatchStats, statsOrder, histVars, skillVars >>

\* The players startSelectionPhase puts in selectionOrder, in Map order.
Pickers ==
  SelectSeq(joinOrder,
            LAMBDA id : /\ playerPositions[id].currentScene = "SoccerMap"
                        /\ IsOnTeam(playerPositions[id].team))

\* The orders sort(() => Math.random() - 0.5) can produce: the permutations.
Shuffles(seq) ==
  {order \in [1..Len(seq) -> {seq[i] : i \in 1..Len(seq)}] :
     \A i, j \in 1..Len(seq) : i # j => order[i] # order[j]}

\* handleStartGame -> startSelectionPhase(io)
HandleStartGame ==
  /\ IF gameStatus # "LOBBY"
     THEN /\ emitted' = << >>
          /\ UNCHANGED << matchVars, timers, score, playerPhysics >>
     ELSE \E order \in Shuffles(Pickers) :
            SelectionWritten(
              nextSelectionTurn(
                [Selection EXCEPT
                   !.status = "SKILL_SELECTION",
                   !.assigned = EmptyMap,
                   !.avail = SkillIds,
                   !.order = order,
                   !.idx = 0,
                   !.picks = << >>,
                   !.out = << SelMsg("soccer:selectionPhaseStarted", NULL) >>],
                playerPositions))
  /\ lastOp' = Op("handleStartGame", NULL, 0, gameStatus = "LOBBY")
  /\ UNCHANGED playerPositions
  /\ SelectionKept

\* handlePickSkill({skillId}) of the socket playerId
PickAllowed(playerId, skillId) ==
  /\ gameStatus \in {"SKILL_SELECTION", "ACTIVE"}
  /\ IF gameStatus = "SKILL_SELECTION"
     THEN /\ currentPickerIndex + 1 \in 1..Len(selectionOrder)
          /\ playerId = selectionOrder[currentPickerIndex + 1]
     ELSE playerId \in midGamePickers
  /\ skillId \in availableSkillIds

HandlePickSkill(playerId, skillId) ==
  /\ playerId \in sockets
  /\ IF PickAllowed(playerId, skillId)
     THEN SelectionWritten(performPick(Selection, playerPositions, playerId, skillId))
     ELSE /\ emitted' = << >>
          /\ UNCHANGED << matchVars, timers, score, playerPhysics >>
  /\ lastOp' = Op("handlePickSkill", playerId, 0, PickAllowed(playerId, skillId))
  /\ UNCHANGED playerPositions
  /\ SelectionKept

\* The selection timer fires: autoPickSkill(io, currentPickerId).
AutoPickSkill ==
  /\ DueTimers # {}
  /\ timers[NextTimer].kind = "selection"
  /\ \E s \in {[Selection EXCEPT !.timers = RemoveAt(timers, NextTimer)]} :
       IF availableSkillIds # {}
       THEN \E skillId \in availableSkillIds :
              SelectionWritten(performPick(s, playerPositions,
                                           timers[NextTimer].player, skillId))
       ELSE SelectionWritten(nextSelectionTurn([s EXCEPT !.idx = @ + 1],
                                               playerPositions))
  /\ lastOp' = Op("autoPickSkill", timers[NextTimer].player, 0, TRUE)
  /\ UNCHANGED playerPositions
  /\ SelectionKept

\* playerPositions after handleTeamAssignment sets the team.
Assigned(playerId, team) ==
  [playerPositions EXCEPT ![playerId].team = team]

\* handleTeamAssignment({team}) of the socket playerId
HandleTeamAssignment(playerId, team) ==
  /\ sockets # {}
  /\ IF ~(HasPosition(playerId)
          /\ playerPositions[playerId].currentScene = "SoccerMap")
     THEN /\ emitted' = << >>
          /\ UNCHANGED << playerPositions, matchVars, timers, score, playerPhysics >>
     ELSE /\ playerPositions' = Assigned(playerId, team)
          /\ \E joins \in {~IsOnTeam(playerPositions[playerId].team)
                           /\ IsOnTeam(team)} :
             \E s \in {[Selection EXCEPT
                          !.phys = IF playerId \in DOMAIN @
                                   THEN [@ EXCEPT ![playerId].team = team] ELSE @,
                          !.order = IF /\ joins /\ gameStatus = "SKILL_SELECTION"
                                       /\ \A i \in 1..Len(@) : @[i] # playerId
                                    THEN Append(@, playerId) ELSE @,
                          !.mid = IF joins /\ gameStatus = "ACTIVE"
                                  THEN @ \cup {playerId} ELSE @,
                          !.out = IF /\ joins /\ gameStatus = "SKILL_SELECTION"
                                     /\ \A i \in 1..Len(selectionOrder) :
                                          selectionOrder[i] # playerId
                                  THEN << SelMsg("soccer:selectionPhaseStarted", NULL) >>
                                  ELSE IF joins /\ gameStatus = "ACTIVE"
                                  THEN << SelMsg("soccer:startMidGamePick", playerId) >>
                                  ELSE << >>]} :
               \E s1 \in {IF playerId \in s.mid THEN s
                          ELSE resetPlayerPosition(s, Assigned(playerId, team),
                                                   playerId, team)} :
                 SelectionWritten([s1 EXCEPT
                                     !.out = Append(@, Msg("soccer:teamAssigned",
                                                           playerId, team,
                                                           ballState.sequence,
                                                           currentTick))])
  /\ lastOp' = Op("handleTeamAssignment", playerId, 0,
                  HasPosition(playerId)
                  /\ playerPositions[playerId].currentScene = "SoccerMap")
  /\ SelectionKept


(***************************************************************************)
(* Specification of the skill selection: a and b are on the teams and c is *)
(* a spectator of SoccerMap; matches are started, picked for, joined and   *)
(* reset while the 30 s turn timer runs.                                   *)
(***************************************************************************)
\* The clock stops after this many ms
MaxSelectElapsed == 60000
\* The game is reset while the ball's sequence is below this
MaxSelectSeq == 1

InitSelect ==
  SetUp({"a", "b", "c"},
        [p \in {"a", "b", "c"} |->
           InMap(IF p = "a" THEN "red" ELSE IF p = "b" THEN "blue" ELSE "spectator")],
        << "a", "b", "c" >>,
        [p \in {"a", "b", "c"} |->
           IF p = "a" THEN Body("red", RED_TEAM_SPAWNS[1].x, RED_TEAM_SPAWNS[1].y, NoStats)
           ELSE IF p = "b"
           THEN Body("blue", BLUE_TEAM_SPAWNS[1].x, BLUE_TEAM_SPAWNS[1].y, NoStats)
           ELSE Body("spectator", SPECTATOR_SPAWN.x, SPECTATOR_SPAWN.y, NoStats)],
        InitialBall)

\* The skills asked for by hand, and the team changes of c.
PickSkills == {"blink"}

JoinTeams == {"red"}

NextSelect ==
  \/ HandleStartGame
  \/ \E playerId \in Players, skillId \in PickSkills : HandlePickSkill(playerId, skillId)
  \/ AutoPickSkill
  \/ \E team \in JoinTeams : HandleTeamAssignment("c", team)
  \/ (ballState.sequence < MaxSelectSeq /\ HandleResetGame)
  \/ /\ now + PICK_TURN_MS <= StartTime + MaxSelectElapsed
     /\ AdvanceClock(PICK_TURN_MS)

SpecSelect == InitSelect /\ [][NextSelect]_vars

\* No player occurs twice in the sequence.
NoRepeat(seq) == \A i, j \in 1..Len(seq) : i # j => seq[i] # seq[j]

\* C13: in the selection phase every pick (by hand or by the 30 s auto-pick)
\* moves the turn on, that is it advances currentPickerIndex, and no player
\* is picked for twice in one selection phase.
C13_OnePickPerTurn ==
  [][(gameStatus = "SKILL_SELECTION" /\ Len(pickLog') > Len(pickLog))
       => /\ currentPickerIndex' > currentPickerIndex
          /\ NoRepeat(pickLog')]_vars


(***************************************************************************)
(* The skill selection under fair scheduling: time passes until the        *)
(* pending timeout is due, and the event loop runs a due timeout.          *)
(***************************************************************************)
\* Time passes until the earliest pending timeout is due.
AwaitTimer ==
  /\ timers # << >>
  /\ DueTimers = {}
  /\ \E i \in 1..Len(timers) :
       /\ \A j \in 1..Len(timers) : timers[i].fireAt <= timers[j].fireAt
       /\ AdvanceClock(timers[i].fireAt - now)

NextSelectFair ==
  \/ HandleStartGame
  \/ \E playerId \in Players, skillId \in PickSkills : HandlePickSkill(playerId, skillId)
  \/ AutoPickSkill
  \/ \E team \in JoinTeams : HandleTeamAssignment("c", team)
  \/ (ballState.sequence < MaxSelectSeq /\ HandleResetGame)
  \/ AwaitTimer

SpecSelectFair ==
  /\ InitSelect
  /\ [][NextSelectFair]_vars
  /\ WF_vars(AwaitTimer)
  /\ WF_vars(AutoPickSkill)

\* C14: whenever the status is SKILL_SELECTION the match later becomes ACTIVE,
\* whatever the pickers do, unless a game reset is requested: timers fire, and
\* any matches, resets and team assignments may have come before the phase.
C14_SelectionLeadsToActive ==
  (gameStatus = "SKILL_SELECTION")
    ~> (gameStatus = "ACTIVE" \/ lastOp.op = "handleResetGame")


(***************************************************************************)
(* Skill cooldowns                                                         *)
(***************************************************************************)
\* The skills with a cooldown between two activations.
CooledSkills == {"slowdown", "blink", "metavision", "lurking_radius", "power_shot"}

\* C15: an activation of a skill with a cooldown that takes effect comes at
\* least the skill's cooldownMs after the previous activation of that skill
\* by that player that took effect.
C15_CooldownEnforced ==
  [][(/\ lastOp'.op \in CooledSkills
      /\ lastOp'.accepted
      /\ << lastOp'.player, lastOp'.op >> \in DOMAIN skillLog)
       => now - skillLog[<< lastOp'.player, lastOp'.op >>]
            >= SOCCER_SKILLS[lastOp'.op].cooldownMs]_vars


(***************************************************************************)
(* Specification of skill ownership: a match is started and picked for,    *)
(* a changes between red and spectator, and a and the spectator c ask for  *)
(* skills in every match status.                                           *)
(***************************************************************************)
\* The clock stops after this many ms
MaxSkillElapsed == 30000
\* The skills picked by hand and asked for, and the players asking.
OwnSkills == {"ninja_step", "metavision"}

SkillUsers == {"a", "c"}

SkillTeams == {"red", "spectator"}

NextSkill ==
  \/ HandleStartGame
  \/ \E playerId \in {"a", "b"}, skillId \in OwnSkills :
       HandlePickSkill(playerId, skillId)
  \/ AutoPickSkill
  \/ \E playerId \in SkillUsers, skillId \in OwnSkills :
       HandleActivateSkill(playerId, skillId, NULL)
  \/ \E team \in SkillTeams : HandleTeamAssignment("a", team)
  \/ /\ now + PICK_TURN_MS <= StartTime + MaxSkillElapsed
     /\ AdvanceClock(PICK_TURN_MS)
  \/ FireTimer

SpecSkill == InitSelect /\ [][NextSkill]_vars

\* The handler that ran is handleActivateSkill and it changed a skill
\* state or sent a message.
SkillTookEffect ==
  /\ lastOp'.op \in SkillIds \cup {"lurking_intercept"}
  /\ \/ lastOp'.accepted
     \/ emitted' # << >>
     \/ skillVars' # skillVars

\* C16: a skill activation takes effect only for a player of the red or
\* the blue team and, while the status is SKILL_SELECTION or ACTIVE, only
\* for the skill assigned to that player; in LOBBY a player of a team may
\* use a skill that is not assigned to it (ninja_step has no other check).
C16_SkillOwnership ==
  [][/\ SkillTookEffect =>
          /\ HasPosition(lastOp'.player)
          /\ playerPositions[lastOp'.player].team \in {"red", "blue"}
          /\ gameStatus \in {"SKILL_SELECTION", "ACTIVE"} =>
               /\ lastOp'.player \in DOMAIN playerAssignedSkills
               /\ playerAssignedSkills[lastOp'.player] =
                    (IF lastOp'.op = "lurking_intercept" THEN "lurking_radius"
                     ELSE lastOp'.op)
     /\ (/\ lastOp'.op = "ninja_step"
         /\ gameStatus = "LOBBY"
         /\ HasPosition(lastOp'.player)
         /\ playerPositions[lastOp'.player].team \in {"red", "blue"})
          => lastOp'.accepted]_vars

\* In an ACTIVE match a player's activation of its assigned skill took effect.
C16_Witness ==
  /\ gameStatus = "ACTIVE"
  /\ lastOp.op \in SkillIds
  /\ lastOp.accepted
  /\ lastOp.player \in DOMAIN playerAssignedSkills
  /\ playerAssignedSkills[lastOp.player] = lastOp.op


(***************************************************************************)
(* The network part of serverTick: broadcastBallState and                  *)
(* broadcastPlayerStates, run when networkAccumulator has reached          *)
(* NETWORK_TICK_MS.  The accumulated wall-clock time is not part of the    *)
(* state: the broadcast is enabled in every pass of a running loop.        *)
(***************************************************************************)
Broadcast ==
  /\ runningLoops > 0
  /\ emitted' = << Msg("ball:state", NULL, NULL, ballState.sequence, currentTick) >>
                 \o (IF DOMAIN playerPhysics # {}
                     THEN << Msg("players:physicsUpdate", NULL, NULL,
                                 ballState.sequence, currentTick) >>
                     ELSE << >>)
  /\ lastSnapshot' = SnapshotAfter(emitted')
  /\ lastOp' = Op("broadcast", NULL, 0, TRUE)
  /\ UNCHANGED << loopVars, currentTick, now, sceneVars, playerPhysics, physOrder,
                  inputVars, lastProcessedSequence, ballState, lastKickTime,
                  kickLog, cancelDue, skillLog, hasScoredGoal, score,
                  playerMatchStats, statsOrder, histVars, timers, matchVars, skillVars >>

(***************************************************************************)
(* Specification of the ball snapshots: a kicks, dribbles and shoots in    *)
(* front of the goal, goals are scored and reset, the game is reset, and   *)
(* the loop steps and broadcasts.                                          *)
(***************************************************************************)
\* Elapsed milliseconds, physics steps and the ball sequence up to which
\* kicks and game resets are sent
MaxSnapElapsed == 3000
MaxSnapTick == 3
MaxSnapSeq == 2

SnapClockSteps == {3000}

NextSnapshots ==
  \/ (ballState.sequence < MaxSnapSeq /\ HandleBallKick("a", "E", 0, 0))
  \/ HandleBallDribble("a")
  \/ (~IsPowerShot /\ HandleActivateSkill("a", "power_shot", NULL))
  \/ (ballState.sequence < MaxSnapSeq /\ HandleResetGame)
  \/ (lastOp.op # "broadcast" /\ Broadcast)
  \/ \E d \in SnapClockSteps :
       /\ now + d <= StartTime + MaxSnapElapsed
       /\ AdvanceClock(d)
  \/ FireTimer
  \/ (currentTick < MaxSnapTick /\ PhysicsStep)

SpecSnapshots == InitReset /\ [][NextSnapshots]_vars

\* The ball snapshots among the messages, in the order sent.
SnapshotsOf(msgs) == SelectSeq(msgs, LAMBDA m : m.type = "ball:state")

\* The snapshot sent before the i-th snapshot of the step's messages.
SnapshotBefore(snaps, i) ==
  IF i = 1 THEN lastSnapshot
  ELSE [sent |-> TRUE, tick |-> snaps[i - 1].tick, sequence |-> snaps[i - 1].sequence]

\* C17: every ball snapshot sent (periodic, or at once on a kick, a dribble,
\* a skill or a goal) carries a tick and a sequence not below those of the
\* snapshot sent before it, also across goal resets and game resets.
C17_SnapshotsMonotonic ==
  [][\A i \in 1..Len(SnapshotsOf(emitted')) :
       SnapshotBefore(SnapshotsOf(emitted'), i).sent =>
         /\ SnapshotsOf(emitted')[i].tick
              >= SnapshotBefore(SnapshotsOf(emitted'), i).tick
         /\ SnapshotsOf(emitted')[i].sequence
              >= SnapshotBefore(SnapshotsOf(emitted'), i).sequence]_vars

\* A snapshot was sent after the ball was reset following a goal, with an
\* earlier snapshot to compare it with.
C17_Witness ==
  /\ lastSnapshot.sent
  /\ lastOp.op = "broadcast"
  /\ score.red + score.blue > 0
  /\ ~hasScoredGoal
  /\ lastSnapshot.sequence >= 2

\* C18: of two ball snapshots sent one after the other, the later one
\* carries the strictly greater tick.
C18_SnapshotTickIncreases ==
  [][\A i \in 1..Len(SnapshotsOf(emitted')) :
       SnapshotBefore(SnapshotsOf(emitted'), i).sent =>
         SnapshotsOf(emitted')[i].tick
           > SnapshotBefore(SnapshotsOf(emitted'), i).tick]_vars


(***************************************************************************)
(* Specification of rejected kicks and dribbles: a (red) stands 320 from   *)
(* the ball and b (blue) 280 from it, c is connected but not in SoccerMap; *)
(* they kick and dribble, b is made a spectator and turns metavision on,   *)
(* while the clock and the loop run.                                       *)
(***************************************************************************)
\* Elapsed milliseconds and physics steps
MaxRejectElapsed == 300
MaxRejectTick == 1

InitReject ==
  SetUp({"a", "b", "c"},
        [p \in {"a", "b"} |-> InMap(IF p = "a" THEN "red" ELSE "blue")],
        << "a", "b" >>,
        [p \in {"a", "b"} |-> IF p = "a" THEN Body("red", 1440, 800, NoStats)
                              ELSE Body("blue", 2040, 800, NoStats)],
        BallAt(1760, 800))

RejectClockSteps == {100}

RejectTeams == {"spectator"}

NextReject ==
  \/ \E playerId \in Players : HandleBallKick(playerId, "E", 0, 0)
  \/ \E playerId \in {"a", "b"} : HandleBallDribble(playerId)
  \/ \E team \in RejectTeams : HandleTeamAssignment("b", team)
  \/ HandleActivateSkill("b", "metavision", NULL)
  \/ \E d \in RejectClockSteps :
       /\ now + d <= StartTime + MaxRejectElapsed
       /\ AdvanceClock(d)
  \/ (currentTick < MaxRejectTick /\ lastOp.op = "AdvanceClock" /\ PhysicsStep)

SpecReject == InitReject /\ [][NextReject]_vars

\* The player is unknown to the service or is not on the red or blue team.
NotAPlayer(playerId) ==
  \/ playerId \notin DOMAIN playerPhysics
  \/ playerId \notin DOMAIN playerPositions
  \/ playerPositions[playerId].team \notin {"red", "blue"}

\* The squared distance between the ball and the player, at the time sent
\* with a kick (0: now).
BallDistance2(playerId, timestamp) ==
  Dist2(Rewound(ballHistory, timestamp, ballState).x,
        Rewound(ballHistory, timestamp, ballState).y,
        Rewound(HistoryOf(playerId), timestamp, playerPhysics[playerId]).x,
        Rewound(HistoryOf(playerId), timestamp, playerPhysics[playerId]).y)

\* The step is a handleBallKick that the service has to reject.
KickToReject ==
  /\ lastOp'.op = "handleBallKick"
  /\ \/ now - lastKickTime < KICK_COOLDOWN_MS
     \/ NotAPlayer(lastOp'.player)
     \/ BallDistance2(lastOp'.player, lastOp'.arg)
          > (IF lastOp'.player \in metavisionPlayers THEN 300 * 300 ELSE 250 * 250)

\* The step is a handleBallDribble that the service has to reject.
DribbleToReject ==
  /\ lastOp'.op = "handleBallDribble"
  /\ \/ now - lastKickTime < 100
     \/ NotAPlayer(lastOp'.player)
     \/ BallDistance2(lastOp'.player, 0) > 300 * 300

\* C19: a kick rejected for the cooldown, an unknown or teamless kicker or
\* the distance, and a dribble rejected for a recent kick, a teamless
\* player or the distance, send nothing and leave the ball (position,
\* velocity, sequence, touch chain), the players' physics, the time of the
\* last kick and all other state of the service as they were.
C19_RejectedChangesNothing ==
  [][(KickToReject \/ DribbleToReject) =>
       /\ emitted' = << >>
       /\ ~lastOp'.accepted
       /\ UNCHANGED << ballState, playerPhysics, lastKickTime, kickLog, score,
                       hasScoredGoal, playerMatchStats, statsOrder, timers, sceneVars,
                       inputVars, matchVars, skillVars, currentTick >>]_vars

\* b, with metavision on, was refused a kick for the cooldown after an
\* accepted kick.
C19_Witness ==
  /\ lastOp.op = "handleBallKick"
  /\ ~lastOp.accepted
  /\ lastOp.player = "b"
  /\ "b" \in metavisionPlayers
  /\ lastKickTime > 0


(***************************************************************************)
(* Specification of the end of a match: an ACTIVE match led by red is in   *)
(* its last steps; a (red) owns metavision and b (blue) ninja_step, both   *)
(* stand away from their spawn points and use their skills while the       *)
(* match clock runs out.                                                   *)
(***************************************************************************)
\* Elapsed milliseconds, physics steps, and the time left on the match clock
MaxEndElapsed == 8000
MaxEndTick == 3
LastMatchMs == 32

InitEnd ==
  SetUpMatch({"a", "b"},
             [p \in {"a", "b"} |-> InMap(IF p = "a" THEN "red" ELSE "blue")],
             << "a", "b" >>,
             [p \in {"a", "b"} |-> IF p = "a" THEN Body("red", 1500, 600, NoStats)
                                   ELSE Body("blue", 2000, 1000, NoStats)],
             InitialBall, "ACTIVE", LastMatchMs, [red |-> 1, blue |-> 0],
             [p \in {"a", "b"} |-> IF p = "a" THEN "metavision" ELSE "ninja_step"])

EndClockSteps == {8000}

NextEnd ==
  \/ \E playerId \in {"a", "b"}, skillId \in {"metavision", "ninja_step"} :
       HandleActivateSkill(playerId, skillId, NULL)
  \/ \E d \in EndClockSteps :
       /\ now + d <= StartTime + MaxEndElapsed
       /\ AdvanceClock(d)
  \/ FireTimer
  \/ (currentTick < MaxEndTick /\ PhysicsStep)

SpecEnd == InitEnd /\ [][NextEnd]_vars

\* The step in which the match clock runs out with a winner.
MatchEnds ==
  /\ gameStatus = "ACTIVE"
  /\ gameStatus' = "LOBBY"
  /\ lastOp'.op = "PhysicsStep"

\* C20: when the match ends on the clock with a winner, the status is
\* LOBBY again and no skill effect is left: nobody is slowed, has
\* metavision, is in ninja step or lurks, no power-shot window or stat buff
\* is active; and the end of the match moves no player (a player at rest
\* stays where it is).
C20_GameEndClearsSkills ==
  [][MatchEnds =>
       /\ slowedPlayers' = {}
       /\ metavisionPlayers' = {}
       /\ ninjaStepPlayers' = {}
       /\ DOMAIN lurkingPlayers' = {}
       /\ ~IsPowerShot'
       /\ \A p \in DOMAIN playerBuffs' : playerBuffs'[p].expiresAt <= now'
       /\ \A p \in DOMAIN playerPhysics :
            (playerPhysics[p].vx = 0 /\ playerPhysics[p].vy = 0)
              => /\ playerPhysics'[p].x = playerPhysics[p].x
                 /\ playerPhysics'[p].y = playerPhysics[p].y]_vars


(***************************************************************************)
(* Specification of player-player collisions: a and b stand 40 or 100      *)
(* apart, each on red, on blue or a spectator; the ball rests 70 or 200    *)
(* from a; both toggle ninja_step while the loop steps.  No input is sent, *)
(* so a step moves a player only by resolving a collision.                 *)
(***************************************************************************)
\* Physics steps
MaxCollideTick == 2

CollideTeams == {"red", "blue", "spectator"}

CollideGaps == {40, 100}

CollideBallGaps == {70, 200}

InitCollide ==
  \E teamA \in CollideTeams, teamB \in CollideTeams, gap \in CollideGaps,
     ballGap \in CollideBallGaps :
    SetUp({"a", "b"},
          [p \in {"a", "b"} |-> InMap(IF p = "a" THEN teamA ELSE teamB)],
          << "a", "b" >>,
          [p \in {"a", "b"} |-> IF p = "a" THEN Body(teamA, 1000, 800, NoStats)
                                ELSE Body(teamB, 1000 + gap, 800, NoStats)],
          BallAt(1000, 800 - ballGap))

NextCollide ==
  \/ \E playerId \in {"a", "b"} : HandleActivateSkill(playerId, "ninja_step", NULL)
  \/ (currentTick < MaxCollideTick /\ PhysicsStep)

SpecCollide == InitCollide /\ [][NextCollide]_vars

\* The player's circle overlaps the ball's.
InBallContact(p) ==
  Dist2(ballState.x, ballState.y, playerPhysics[p].x, playerPhysics[p].y)
    < (BALL_RADIUS + PLAYER_RADIUS) * (BALL_RADIUS + PLAYER_RADIUS)

\* The player takes no part in player-player collisions: a spectator, or
\* in ninja step without contact with the ball.
NoCollider(p) ==
  \/ playerPhysics[p].team \notin {"red", "blue"}
  \/ (p \in ninjaStepPlayers /\ ~InBallContact(p))

\* C21: a physics step changes neither the position nor the velocity of
\* the two players of a pair in which one is a spectator or is in ninja
\* step without contact with the ball; only pairs of two on-team players
\* not phased are separated and pushed.
C21_ExemptPairsUntouched ==
  [][(/\ currentTick' = currentTick + 1
      /\ \E p \in DOMAIN playerPhysics : NoCollider(p))
       => playerPhysics' = playerPhysics]_vars


\* The player is within the 20 px margin of contact with the ball
\* (isTouchingBall).
NearBall(p) ==
  Dist2(ballState.x, ballState.y, playerPhysics[p].x, playerPhysics[p].y)
    < (BALL_RADIUS + PLAYER_RADIUS + 20) * (BALL_RADIUS + PLAYER_RADIUS + 20)

\* C21, with the margin: a physics step changes neither the position nor
\* the velocity of the two players of a pair in which one is a spectator
\* or is in ninja step and farther than 20 px from contact with the ball.
C21_GhostedPairsUntouched ==
  [][(/\ currentTick' = currentTick + 1
      /\ \E p \in DOMAIN playerPhysics :
           \/ playerPhysics[p].team \notin {"red", "blue"}
           \/ (p \in ninjaStepPlayers /\ ~NearBall(p)))
       => playerPhysics' = playerPhysics]_vars

\* A step has run on two overlapping players of the teams, a in ninja step
\* away from the ball, and has left them overlapping.
C21_Witness ==
  /\ lastOp.op = "PhysicsStep"
  /\ "a" \in ninjaStepPlayers
  /\ ~NearBall("a")
  /\ playerPhysics["a"].team = "red"
  /\ playerPhysics["b"].team = "blue"
  /\ playerPhysics["b"].x - playerPhysics["a"].x = 40


(***************************************************************************)
(* Specification of the kernel run twice: integrateBall and integratePlayer *)
(* step the service's ball and player "a", and independently step a second *)
(* copy of both from the same start with the same inputs, while the wall   *)
(* clock advances between the steps.                                       *)
(***************************************************************************)
MaxKernelSteps == 2
MaxKernelElapsed == 20

\* The inputs of one step: the keys held and the stat multipliers.
KernelInputs ==
  { [input |-> [up |-> FALSE, down |-> FALSE, left |-> FALSE, right |-> TRUE],
     dragPm |-> 1000, speedPm |-> 1000],
    [input |-> [up |-> TRUE, down |-> FALSE, left |-> TRUE, right |-> FALSE],
     dragPm |-> 1000, speedPm |-> 1000],
    [input |-> [up |-> FALSE, down |-> TRUE, left |-> FALSE, right |-> TRUE],
     dragPm |-> 800, speedPm |-> 1200],
    [input |-> [up |-> FALSE, down |-> FALSE, left |-> FALSE, right |-> FALSE],
     dragPm |-> 500, speedPm |-> 1000] }

\* Balls in flight: towards the right wall, into the top left corner, in the open.
KernelBalls ==
  { [BallAt(3480, 800) EXCEPT !.vx = 900],
    [BallAt(40, 40) EXCEPT !.vx = -500, !.vy = -500],
    [BallAt(1760, 800) EXCEPT !.vx = 300, !.vy = -200] }

\* Players: at the left wall and running at full speed in the open.
KernelBodies ==
  { Body("red", 32, 800, NoStats),
    [Body("red", 1000, 800, NoStats) EXCEPT !.vx = 590, !.vy = -100] }

Schedules(n) == [1..n -> KernelInputs]

InitKernel ==
  \E ball \in KernelBalls, body \in KernelBodies, schedule \in Schedules(MaxKernelSteps) :
    SetUpReplay({"a"}, [a |-> InMap("red")], << "a" >>, [a |-> body], ball, "LOBBY",
                DEFAULT_GAME_TIME_MS, [red |-> 0, blue |-> 0], EmptyMap,
                [ball |-> ball, player |-> body, tick |-> 0, schedule |-> schedule])

\* One step of the kernel on the service's ball and player.
KernelStep ==
  /\ currentTick < Len(replay.schedule)
  /\ \E e \in {replay.schedule[currentTick + 1]} :
       /\ ballState' = integrateBall(ballState)
       /\ playerPhysics' = [playerPhysics EXCEPT
                              !["a"] = integratePlayer(@, e.input, e.dragPm, e.speedPm)]
  /\ currentTick' = currentTick + 1
  /\ emitted' = << >>
  /\ lastOp' = Op("KernelStep", NULL, currentTick, TRUE)
  /\ UNCHANGED << loopVars, now, sceneVars, physOrder, inputVars,
                  lastProcessedSequence, kickVars, hasScoredGoal, score,
                  playerMatchStats, statsOrder, histVars, timers, matchVars, skillVars >>

\* One step of the kernel in the second run.
ReplayStep ==
  /\ replay.tick < Len(replay.schedule)
  /\ \E e \in {replay.schedule[replay.tick + 1]} :
       replay' = [replay EXCEPT
                    !.ball = integrateBall(@),
                    !.player = integratePlayer(@, e.input, e.dragPm, e.speedPm),
                    !.tick = @ + 1]
  /\ emitted' = << >>
  /\ lastOp' = Op("ReplayStep", NULL, replay.tick, TRUE)
  /\ UNCHANGED << sockets, activeConnections, updateInterval, runningLoops, loopThrew,
                  tickVars, currentTick, now, sceneVars, playerPhysics, physOrder,
                  inputVars,
                  lastProcessedSequence, ballState, kickVars, hasScoredGoal, score,
                  playerMatchStats, statsOrder, histVars, timers, matchVars, skillVars >>

NextKernel ==
  \/ KernelStep
  \/ ReplayStep
  \/ \E d \in {7} : now + d <= StartTime + MaxKernelElapsed /\ AdvanceClock(d)

SpecKernel == InitKernel /\ [][NextKernel]_vars

MaxStopTick == 260
MaxStopElapsed == 4200

\* A ball in flight from (x, y).
BallInFlight(x, y, vx, vy) ==
  [BallAt(x, y) EXCEPT !.vx = vx, !.vy = vy, !.isMoving = TRUE]

\* In the open, at the right wall, into the top left corner, onto an edge and
\* onto a corner of the collision rectangle, and into the blue goal.
StopBalls ==
  { BallInFlight(1760, 500, 60, -40),
    BallInFlight(3480, 300, 300, 0),
    BallInFlight(40, 40, -250, -200),
    BallInFlight(1760, 660, 0, 250),
    BallInFlight(1670, 670, 200, 200),
    BallInFlight(3360, 800, 200, 30) }

InitStop ==
  \E ball \in StopBalls :
    SetUp({"a"}, [a |-> InMap("red")], << "a" >>,
          [a |-> Body("red", 300, 1400, NoStats)], ball)

\* A pass of the loop finds a time step accumulated.
StepDue ==
  /\ runningLoops > 0
  /\ DueTimers = {}
  /\ currentTick < MaxStopTick
  /\ (currentTick + 1) * FIXED_TIMESTEP_MS <= now - StartTime

\* That pass of the loop.
StopStep == StepDue /\ PhysicsStep

\* Time passes between the passes of the loop.
StopClock ==
  /\ DueTimers = {}
  /\ currentTick * FIXED_TIMESTEP_MS >= now - StartTime
  /\ now + FIXED_TIMESTEP_MS <= StartTime + MaxStopElapsed
  /\ AdvanceClock(FIXED_TIMESTEP_MS)

NextStop ==
  \/ StopStep
  \/ StopClock
  \/ FireTimer

\* Weak fairness of the clock and of the step.  StepDue is the enabling
\* condition of StopStep, so the last conjunct is WF_vars(StopStep) written out.
SpecStop ==
  /\ InitStop
  /\ [][NextStop]_vars
  /\ WF_vars(StopClock)
  /\ ([]<>~StepDue \/ []<><<StopStep>>_vars)

Speed2(s) == s.vx * s.vx + s.vy * s.vy

BallStopped == ballState.vx = 0 /\ ballState.vy = 0 /\ ~ballState.isMoving

\* C23: with no kick, dribble, skill or player contact, no physics step
\* increases the speed of the ball, bounces off the walls and off collision
\* rectangles included, and a moving ball is stopped (vx = vy = 0 and
\* isMoving false) after finitely many steps.
C23_BallSlowsAndStops ==
  /\ [][currentTick' = currentTick + 1 =>
          Speed2(ballState') <= Speed2(ballState)]_vars
  /\ (ballState.isMoving ~> BallStopped)

\* The ball has bounced off the collision rectangle and has come to rest.
C23_Witness ==
  /\ lastOp.op = "PhysicsStep"
  /\ BallStopped
  /\ ballState.x = 1760
  /\ ballState.y < 660


(***************************************************************************)
(* Specification of a full input queue: a client sends inputs faster than  *)
(* the loop consumes them.                                                 *)
(***************************************************************************)
MaxQueueTick == 2

\* The sequence numbers the client sends.
QueueSequences == {1, 2}

\* The keys the client holds.
QueueKeys == [up |-> FALSE, down |-> FALSE, left |-> FALSE, right |-> TRUE]

NextQueue ==
  \/ \E sequence \in QueueSequences :
       UpdatePlayerInput("a", Input(QueueKeys, sequence))
  \/ (currentTick < MaxQueueTick /\ PhysicsStep)

SpecQueue == InitInput /\ [][NextQueue]_vars

\* C24: no input queue ever holds more than 120 entries; an input is
\* appended at the end, the oldest entry being dropped when the queue held
\* 120 already, except that an input whose sequence is that of the last
\* queued entry is not appended.
C24_QueueCapped ==
  /\ [](\A p \in DOMAIN playerInputQueues :
          Len(playerInputQueues[p]) <= MAX_INPUT_QUEUE)
  /\ [][lastOp'.op = "updatePlayerInput" =>
          \E p \in {lastOp'.player} :
            \E q \in {IF p \in DOMAIN playerInputQueues
                      THEN playerInputQueues[p] ELSE << >>} :
              \E in \in {Input(QueueKeys, lastOp'.arg)} :
                playerInputQueues'[p] =
                  IF Len(q) > 0 /\ q[Len(q)].sequence = in.sequence THEN q
                  ELSE IF Len(q) = MAX_INPUT_QUEUE THEN Append(Tail(q), in)
                  ELSE Append(q, in)]_vars

\* The 121st input in a row has arrived before any physics step: the first
\* one, still the current input, is no longer in the queue.
C24_Witness ==
  /\ currentTick = 0
  /\ lastOp.op = "updatePlayerInput"
  /\ lastOp.accepted
  /\ QueueLen("a") = MAX_INPUT_QUEUE
  /\ playerInputs["a"].sequence = 1
  /\ playerInputQueues["a"][1].sequence = 2
  /\ playerInputQueues["a"][MAX_INPUT_QUEUE].sequence = 1


(***************************************************************************)
(* Specification of inputs consumed while a goal is scored: the ball flies *)
(* into the blue goal while a red player far from it sends inputs.         *)
(***************************************************************************)
MaxDrainTick == 6
MaxDrainQueue == 2
MaxDrainSeq == 3

InitDrain ==
  SetUp({"a"}, [a |-> InMap("red")], << "a" >>,
        [a |-> Body("red", 300, 1400, NoStats)], BallInFlight(3360, 800, 200, 30))

NextDrain ==
  \/ \E sequence \in 1..MaxDrainSeq :
       /\ QueueLen("a") < MaxDrainQueue
       /\ UpdatePlayerInput("a", Input(QueueKeys, sequence))
  \/ (currentTick < MaxDrainTick /\ PhysicsStep)

SpecDrain == InitDrain /\ [][NextDrain]_vars

\* C25: every physics step, the step that awards a goal included, takes the
\* oldest input off each non-empty queue and makes it the current input of
\* that player, and leaves the current input of a player with an empty queue
\* as it was.
C25_StepConsumesOneInput ==
  [][currentTick' = currentTick + 1 =>
       \A p \in DOMAIN playerPhysics :
         IF QueueLen(p) > 0
         THEN /\ playerInputQueues'[p] = Tail(playerInputQueues[p])
              /\ playerInputs'[p] = Head(playerInputQueues[p])
         ELSE /\ QueueLen(p)' = 0
              /\ (p \in DOMAIN playerInputs') = (p \in DOMAIN playerInputs)
              /\ p \in DOMAIN playerInputs => playerInputs'[p] = playerInputs[p]]_vars


\* C26: the physics step that awards a goal leaves the ball with zero
\* velocity, and while the reset of that goal is pending no physics step
\* moves the ball, when no kick, dribble, skill or player touches it.
C26_BallRestsAfterGoal ==
  [][currentTick' = currentTick + 1 /\ hasScoredGoal' =>
       /\ ballState'.vx = 0
       /\ ballState'.vy = 0
       /\ hasScoredGoal => (ballState'.x = ballState.x /\ ballState'.y = ballState.y)]_vars


(***************************************************************************)
(* Specification of the reset after a goal: the ball flies into the blue   *)
(* goal while red player a moves and leaves and blue player c changes      *)
(* teams beside red player b; the two timeouts of the goal run back to     *)
(* back when they are due.                                                 *)
(***************************************************************************)
MaxRespawnTick == 2
MaxRespawnQueue == 1

InitRespawn ==
  SetUp({"a", "b", "c"},
        [p \in {"a", "b", "c"} |-> InMap(IF p = "c" THEN "blue" ELSE "red")],
        << "a", "b", "c" >>,
        [p \in {"a", "b", "c"} |->
           Body(IF p = "c" THEN "blue" ELSE "red",
                IF p = "a" THEN 300 ELSE IF p = "b" THEN 500 ELSE 700, 1400, NoStats)],
        BallInFlight(3367, 800, 200, 30))

RespawnTeams == {"red", "blue"}

NextRespawn ==
  \/ /\ DueTimers = {}
     /\ \/ /\ QueueLen("a") < MaxRespawnQueue
           /\ UpdatePlayerInput("a", Input(QueueKeys, currentTick + 1))
        \/ \E team \in RespawnTeams :
             /\ playerPositions["c"].team # team
             /\ HandleTeamAssignment("c", team)
        \/ Disconnect("a")
        \/ (currentTick < MaxRespawnTick /\ PhysicsStep)
  \/ AwaitTimer
  \/ FireTimer

\* Time passes, and Node runs the timeouts that are due.
SpecRespawn ==
  /\ InitRespawn
  /\ [][NextRespawn]_vars
  /\ WF_vars(AwaitTimer)
  /\ WF_vars(FireTimer)

\* The timeouts of the given kind that are due GOAL_RESET_DELAY_MS from now.
ResetsScheduled(ts, kind) ==
  {i \in 1..Len(ts) : ts[i].kind = kind /\ ts[i].fireAt = now + GOAL_RESET_DELAY_MS}

\* Place of the player among the players of its team, from 0.
TeamIndex(p) ==
  Cardinality({i \in 1..Len(joinOrder) :
                 /\ playerPositions[joinOrder[i]].currentScene = "SoccerMap"
                 /\ playerPositions[joinOrder[i]].team = playerPositions[p].team
                 /\ \E k \in i + 1..Len(joinOrder) : joinOrder[k] = p})

TeamSpawn(p) ==
  IF playerPositions[p].team = "red" THEN RED_TEAM_SPAWNS[(TeamIndex(p) % 6) + 1]
  ELSE BLUE_TEAM_SPAWNS[(TeamIndex(p) % 6) + 1]

BallAtCentre(b) ==
  b.x = 1760 /\ b.y = 800 /\ b.vx = 0 /\ b.vy = 0 /\ ~b.isMoving

\* C27: the step that awards a goal schedules the reset of the ball and of
\* the players 3 s later; when they have run, the ball is at the centre
\* (1760, 800) at rest with isMoving false, its sequence is one higher than
\* before the reset, hasScoredGoal is cleared, and every red or blue player
\* is at rest at the spawn of its team whose index is the player's place in
\* the team modulo 6; and after every goal the reset does run.
C27_GoalResetsBallAndPlayers ==
  /\ [][hasScoredGoal' /\ ~hasScoredGoal =>
          /\ ResetsScheduled(timers', "resetBall") # {}
          /\ ResetsScheduled(timers', "resetPlayers") # {}]_vars
  /\ [][lastOp'.op = "resetBall" =>
          /\ BallAtCentre(ballState')
          /\ ballState'.sequence = ballState.sequence + 1
          /\ ~hasScoredGoal']_vars
  /\ [][lastOp'.op = "resetPlayers" =>
          /\ BallAtCentre(ballState')
          /\ ~hasScoredGoal'
          /\ \A p \in DOMAIN playerPhysics' :
               (/\ p \in DOMAIN playerPositions
                /\ playerPositions[p].currentScene = "SoccerMap"
                /\ IsOnTeam(playerPositions[p].team))
               => /\ playerPhysics'[p].x = TeamSpawn(p).x
                  /\ playerPhysics'[p].y = TeamSpawn(p).y
                  /\ playerPhysics'[p].vx = 0
                  /\ playerPhysics'[p].vy = 0]_vars
  /\ (hasScoredGoal ~> (lastOp.op = "resetPlayers" /\ ~hasScoredGoal))

\* The players have been reset after a goal: a has left, b, the second red
\* player to join, is now the first and c has gone over to red, the second.
C27_Witness ==
  /\ lastOp.op = "resetPlayers"
  /\ score.red = 1
  /\ "a" \notin DOMAIN playerPhysics
  /\ playerPositions["c"].team = "red"
  /\ playerPhysics["b"].x = RED_TEAM_SPAWNS[1].x
  /\ playerPhysics["b"].y = RED_TEAM_SPAWNS[1].y
  /\ playerPhysics["c"].x = RED_TEAM_SPAWNS[2].x
  /\ playerPhysics["c"].y = RED_TEAM_SPAWNS[2].y


(***************************************************************************)
(* soccer:randomizeTeams                                                   *)
(***************************************************************************)
SwapAt(seq, i, j) == [seq EXCEPT ![i] = seq[j], ![j] = seq[i]]

\* The shuffle loop of handleRandomizeTeams from index i (from 1) on: the
\* element at i is swapped with one at j <= i, for i up to the last but one.
RECURSIVE RandomizeShuffles(_, _)
RandomizeShuffles(seqs, i) ==
  IF \A seq \in seqs : i > Len(seq) - 1 THEN seqs
  ELSE RandomizeShuffles({SwapAt(seq, i, j) : seq \in seqs, j \in 1..i}, i + 1)

\* redTeam.forEach / blueTeam.forEach: r holds the player positions and the
\* physics and messages written so far.
RECURSIVE RandomizeTeam(_, _, _, _)
RandomizeTeam(r, members, team, i) ==
  IF i > Len(members) THEN r
  ELSE \* player.team = team; resetPlayerPosition; emit soccer:teamAssigned
    RandomizeTeam(
      [positions |-> [r.positions EXCEPT ![members[i]].team = team],
       s |-> [resetPlayerPosition(r.s, [r.positions EXCEPT ![members[i]].team = team],
                                  members[i], team)
                EXCEPT !.out = Append(@, Msg("soccer:teamAssigned", members[i], team,
                                             ballState.sequence, currentTick))]],
      members, team, i + 1)

\* handleRandomizeTeams()
HandleRandomizeTeams ==
  /\ sockets # {}
  /\ \E soccerPlayers \in {SelectSeq(joinOrder,
                            LAMBDA id : playerPositions[id].currentScene = "SoccerMap")} :
       IF Len(soccerPlayers) = 0
       THEN /\ emitted' = << >>
            /\ lastOp' = Op("handleRandomizeTeams", NULL, 0, FALSE)
            /\ UNCHANGED << playerPositions, matchVars, timers, score, playerPhysics >>
       ELSE \E shuffled \in RandomizeShuffles({soccerPlayers}, 1) :
            \E midpoint \in {(Len(soccerPlayers) + 1) \div 2} :
            \E red \in {RandomizeTeam([positions |-> playerPositions, s |-> Selection],
                                      SubSeq(shuffled, 1, midpoint), "red", 1)} :
            \E r \in {RandomizeTeam(red, SubSeq(shuffled, midpoint + 1, Len(shuffled)),
                                    "blue", 1)} :
              /\ playerPositions' = r.positions
              /\ SelectionWritten(r.s)
              /\ lastOp' = Op("handleRandomizeTeams", NULL, 0, TRUE)
  /\ SelectionKept

(***************************************************************************)
(* Specification of team spawns: three spectators in SoccerMap are         *)
(* assigned to teams, change teams, are shuffled and leave.                *)
(***************************************************************************)
InitSpawn ==
  SetUp({"a", "b", "c"}, [p \in {"a", "b", "c"} |-> InMap("spectator")],
        << "a", "b", "c" >>,
        [p \in {"a", "b", "c"} |->
           Body("spectator", SPECTATOR_SPAWN.x, SPECTATOR_SPAWN.y, NoStats)],
        InitialBall)

SpawnTeams == {"red", "blue", "spectator"}

NextSpawn ==
  \/ \E playerId \in {"a", "b", "c"}, team \in SpawnTeams :
       HandleTeamAssignment(playerId, team)
  \/ HandleRandomizeTeams
  \/ Disconnect("a")

SpecSpawn == InitSpawn /\ [][NextSpawn]_vars

\* The players in SoccerMap that are on the team of p, p excepted.
TeamMates(positions, p) ==
  {q \in DOMAIN positions \ {p} :
     /\ positions[q].currentScene = "SoccerMap"
     /\ positions[q].team = positions[p].team}

\* The players put on red or blue by the handler that ran last.
JustAssigned ==
  IF lastOp.op = "handleTeamAssignment" /\ lastOp.accepted
  THEN {p \in {lastOp.player} : IsOnTeam(playerPositions[p].team)}
  ELSE IF lastOp.op = "handleRandomizeTeams" /\ lastOp.accepted
  THEN {p \in DOMAIN playerPositions : playerPositions[p].currentScene = "SoccerMap"}
  ELSE {}

\* C28: a player assigned to red or blue by soccer:assignTeam or
\* soccer:randomizeTeams, in a team of at most 6, stands after the assignment
\* at a spawn of the team at which no other member of the team stands,
\* whatever assignments, team changes and departures came before (nobody
\* moves in this specification: every member is where it was placed).
C28_SpawnNotShared ==
  \A p \in JustAssigned :
    Cardinality(TeamMates(playerPositions, p)) < 6 =>
      /\ \E i \in 1..6 :
           \E spawn \in {IF playerPositions[p].team = "red" THEN RED_TEAM_SPAWNS[i]
                         ELSE BLUE_TEAM_SPAWNS[i]} :
             playerPhysics[p].x = spawn.x /\ playerPhysics[p].y = spawn.y
      /\ \A q \in TeamMates(playerPositions, p) :
           playerPhysics[q].x # playerPhysics[p].x \/ playerPhysics[q].y # playerPhysics[p].y


(***************************************************************************)
(* Specification of interceptions: red player a kicks the ball east at     *)
(* player b, who stands in its path on a team or as a spectator.           *)
(***************************************************************************)
MaxInterceptTick == 6
MaxInterceptElapsed == 600

InterceptTeams == {"red", "blue", "spectator"}

InitIntercept ==
  \E teamB \in InterceptTeams :
    SetUp({"a", "b"}, [p \in {"a", "b"} |-> InMap(IF p = "a" THEN "red" ELSE teamB)],
          << "a", "b" >>,
          [p \in {"a", "b"} |->
             IF p = "a" THEN Body("red", 1000, 800, NoStats)
             ELSE Body(teamB, 1200, 800, NoStats)],
          BallAt(1080, 800))

InterceptClockSteps == {300}

NextIntercept ==
  \/ HandleBallKick("a", "E", 0, 0)
  \/ \E d \in InterceptClockSteps :
       /\ now + d <= StartTime + MaxInterceptElapsed
       /\ AdvanceClock(d)
  \/ (currentTick < MaxInterceptTick /\ PhysicsStep)

SpecIntercept == InitIntercept /\ [][NextIntercept]_vars

Interceptions(stats, p) == StatsOf(stats, p).interceptions

\* C29: the interception count of a player p rises in a step only if p is on
\* red or blue and the player that lastTouchId named before the step is on
\* the other of the two teams.
C29_InterceptionFromOpponent ==
  [][\A p \in DOMAIN playerMatchStats' :
       Interceptions(playerMatchStats', p) > Interceptions(playerMatchStats, p) =>
         /\ HasPosition(p)
         /\ IsOnTeam(playerPositions[p].team)
         /\ HasPosition(ballState.lastTouchId)
         /\ playerPositions[ballState.lastTouchId].team
              = OtherTeam(playerPositions[p].team)]_vars


(***************************************************************************)
(* Specification of the clock running out: an ACTIVE match with 32 ms left *)
(* on any score.                                                           *)
(***************************************************************************)
OvertimeScores ==
  { [red |-> 0, blue |-> 0], [red |-> 2, blue |-> 2], [red |-> 1, blue |-> 0],
    [red |-> 1, blue |-> 3] }

InitOvertime ==
  \E goals \in OvertimeScores :
    SetUpMatch({"a", "b"},
               [p \in {"a", "b"} |-> InMap(IF p = "a" THEN "red" ELSE "blue")],
               << "a", "b" >>,
               [p \in {"a", "b"} |-> IF p = "a" THEN Body("red", 1500, 600, NoStats)
                                     ELSE Body("blue", 2000, 1000, NoStats)],
               InitialBall, "ACTIVE", LastMatchMs, goals,
               [p \in {"a", "b"} |-> IF p = "a" THEN "metavision" ELSE "ninja_step"])

SpecOvertime == InitOvertime /\ [][NextEnd]_vars

\* The physics step in which the match clock reaches zero.
ClockRunsOut ==
  /\ lastOp'.op = "PhysicsStep"
  /\ isGameActive
  /\ gameTimeRemaining - FIXED_TIMESTEP_MS <= 0

MmrTimers(ts) == {i \in 1..Len(ts) : ts[i].kind = "processMmr"}

GameEnds(msgs) == {i \in 1..Len(msgs) : msgs[i].type = "soccer:gameEnd"}

\* C30: when the match clock reaches zero on equal scores the match goes
\* on: the status stays ACTIVE, the clock is set to 60 s, and no MMR
\* processing is started and no soccer:gameEnd sent; on different scores the
\* status returns to LOBBY and the winner that is processed and announced is
\* the team with the strictly higher score.
C30_TieGoesToOvertime ==
  /\ [][ClockRunsOut /\ score.red = score.blue =>
          /\ gameStatus' = "ACTIVE"
          /\ isGameActive'
          /\ gameTimeRemaining' = 60000
          /\ MmrTimers(timers') = {}
          /\ GameEnds(emitted') = {}]_vars
  /\ [][ClockRunsOut /\ score.red # score.blue =>
          /\ gameStatus' = "LOBBY"
          /\ ~isGameActive'
          /\ MmrTimers(timers') # {}
          /\ \A i \in MmrTimers(timers') :
               /\ timers'[i].winner \in {"red", "blue"}
               /\ score[timers'[i].winner] > score[OtherTeam(timers'[i].winner)]]_vars
  /\ [][GameEnds(emitted') # {} =>
          /\ MmrTimers(timers) # {}
          /\ \A i \in GameEnds(emitted') :
               \E j \in MmrTimers(timers) : emitted'[i].team = timers[j].winner]_vars

\* The clock has run out on 2 : 2 and the match is in overtime.
C30_Witness ==
  /\ lastOp.op = "PhysicsStep"
  /\ gameStatus = "ACTIVE"
  /\ gameTimeRemaining = OVERTIME_DURATION_MS
  /\ score = [red |-> 2, blue |-> 2]

(***************************************************************************)
(* The available skills and the assigned skills                            *)
(***************************************************************************)
\* The skills assigned to the players.
AssignedSkills(assigned) == {assigned[id] : id \in DOMAIN assigned}

\* No skill is assigned to two players and no assigned skill is available.
SkillsPartitioned(assigned, avail) ==
  /\ \A p, q \in DOMAIN assigned : assigned[p] = assigned[q] => p = q
  /\ AssignedSkills(assigned) \cap avail = {}

\* The players the handler that ran last has announced a pick for.
PickedFor(msgs) ==
  {msgs[i].player : i \in {j \in 1..Len(msgs) : msgs[j].type = "soccer:skillPicked"}}

\* C31: during SKILL_SELECTION and ACTIVE no skill is assigned to two
\* different players and no assigned skill is in the available set; a pick is
\* accepted only from the current picker (while ACTIVE: from a registered
\* mid-game picker) and only for a skill that was still available, and the
\* pick takes that skill out of the available set.
C31_AvailableSetShrinks ==
  /\ [](gameStatus \in {"SKILL_SELECTION", "ACTIVE"}
          => SkillsPartitioned(playerAssignedSkills, availableSkillIds))
  /\ [][\A p \in PickedFor(emitted') :
          /\ gameStatus \in {"SKILL_SELECTION", "ACTIVE"}
          /\ IF gameStatus = "SKILL_SELECTION"
             THEN /\ currentPickerIndex + 1 \in 1..Len(selectionOrder)
                  /\ p = selectionOrder[currentPickerIndex + 1]
             ELSE p \in midGamePickers
          /\ p \in DOMAIN playerAssignedSkills'
          /\ playerAssignedSkills'[p] \in availableSkillIds
          /\ availableSkillIds' = availableSkillIds \ {playerAssignedSkills'[p]}]_vars

\* An ACTIVE match in which all three players hold a skill, the third picked
\* by hand by a mid-game picker.
C31_Witness ==
  /\ gameStatus = "ACTIVE"
  /\ Cardinality(DOMAIN playerAssignedSkills) = 3
  /\ lastOp.op = "handlePickSkill"
  /\ lastOp.accepted
  /\ "soccer:skillPicked" \in {emitted[i].type : i \in 1..Len(emitted)}

(***************************************************************************)
(* Specification of the MVP: an ACTIVE match led by red has 32 ms left;    *)
(* a and c are on red and b on blue; each of them has a row of match stats *)
(* or none, entered in any order; players disconnect while the clock runs  *)
(* out.                                                                    *)
(***************************************************************************)
\* Physics steps
MaxMvpTick == 3

\* The rows of match stats a player can have.
MvpRows ==
  { [goals |-> 1, assists |-> 0, interceptions |-> 0],
    [goals |-> 0, assists |-> 1, interceptions |-> 0],
    [goals |-> 0, assists |-> 0, interceptions |-> 1] }

\* The orders in which the entries of a Map with these keys can have been made.
Orders(keys) ==
  {order \in [1..Cardinality(keys) -> keys] :
     \A i, j \in 1..Cardinality(keys) : i # j => order[i] # order[j]}

InitMvp ==
  \E holders \in SUBSET {"a", "b", "c"} :
    \E stats \in [holders -> MvpRows], statOrder \in Orders(holders) :
      SetUpStats({"a", "b", "c"},
                 [p \in {"a", "b", "c"} |-> InMap(IF p = "b" THEN "blue" ELSE "red")],
                 << "a", "b", "c" >>,
                 [p \in {"a", "b", "c"} |->
                    IF p = "a" THEN Body("red", 1500, 600, NoStats)
                    ELSE IF p = "b" THEN Body("blue", 2000, 1000, NoStats)
                    ELSE Body("red", 1000, 400, NoStats)],
                 InitialBall, "ACTIVE", LastMatchMs, [red |-> 3, blue |-> 0],
                 [p \in {"a", "b", "c"} |-> IF p = "a" THEN "metavision"
                                            ELSE IF p = "b" THEN "ninja_step"
                                            ELSE "blink"],
                 NULL, stats, statOrder)

NextMvp ==
  \/ \E c \in Players : Disconnect(c)
  \/ FireTimer
  \/ (currentTick < MaxMvpTick /\ PhysicsStep)

SpecMvp == InitMvp /\ [][NextMvp]_vars

\* The physics step that ran last has ended the match.
MatchEnded == lastOp.op = "PhysicsStep" /\ lastOp.arg.winner # NULL

\* The players with an entry in playerPositions and a row of match stats.
PresentWithStats(stats) == DOMAIN playerPositions \cap DOMAIN stats

\* C32: the MVP handleGameEnd determines, which soccer:gameEnd reports, is a
\* player still present whose MVP score goals*10 + assists*5 +
\* interceptions*2 is at least that of every other present player with
\* recorded match stats; it is null only when no present player has
\* recorded stats.
C32_MvpIsBestPresent ==
  MatchEnded =>
    /\ lastOp.arg.mvp # NULL =>
         /\ lastOp.arg.mvp \in PresentWithStats(lastOp.arg.stats)
         /\ \A q \in PresentWithStats(lastOp.arg.stats) :
              MvpScore(lastOp.arg.stats[lastOp.arg.mvp])
                >= MvpScore(lastOp.arg.stats[q])
    /\ lastOp.arg.mvp = NULL => PresentWithStats(lastOp.arg.stats) = {}

(***************************************************************************)
(* One wake of the loop: serverTick as a whole, with the accumulators.     *)
(* The step record r holds the world w and the two history buffers.        *)
(***************************************************************************)
\* One pass of the while loop of serverTick.
TickStep(r) ==
  LET w == updateGameTimer(updateBallPhysics([r.w EXCEPT !.tick = @ + 1]))
  IN [w |-> w,
      ballHistory |-> PushHistory(r.ballHistory, w.ball.x, w.ball.y),
      playerHistory |->
        [id \in DOMAIN r.playerHistory \cup DOMAIN w.phys |->
           IF id \in DOMAIN w.phys
           THEN PushHistory(IF id \in DOMAIN r.playerHistory
                            THEN r.playerHistory[id] ELSE << >>,
                            w.phys[id].x, w.phys[id].y)
           ELSE r.playerHistory[id]]]

RECURSIVE TickSteps(_, _)
TickSteps(r, n) == IF n = 0 THEN r ELSE TickSteps(TickStep(r), n - 1)

\* serverTick(io): the elapsed time goes into both accumulators, the physics
\* accumulator is capped at ten steps and drained step by step, and the
\* state is broadcast when the network accumulator has reached 50 ms.
ServerTick ==
  /\ runningLoops > 0
  /\ \E acc \in {Min(accumulator + (now - lastTime), FIXED_TIMESTEP_MS * 10)},
        net \in {networkAccumulator + (now - lastTime)} :
       \E r \in {TickSteps([w |-> World, ballHistory |-> ballHistory,
                            playerHistory |-> playerHistory],
                           acc \div FIXED_TIMESTEP_MS)} :
         /\ ~r.w.nan
         /\ lastTime' = now
         /\ accumulator' = acc % FIXED_TIMESTEP_MS
         /\ networkAccumulator' = IF net >= NETWORK_TICK_MS
                                  THEN net - NETWORK_TICK_MS ELSE net
         /\ ballState' = r.w.ball
         /\ playerPhysics' = r.w.phys
         /\ playerInputs' = r.w.inputs
         /\ playerInputQueues' = r.w.queues
         /\ lastProcessedSequence' = r.w.lps
         /\ score' = r.w.score
         /\ playerMatchStats' = r.w.stats
         /\ statsOrder' = r.w.statOrder
         /\ hasScoredGoal' = r.w.goal
         /\ timers' = r.w.timers
         /\ gameStatus' = r.w.gameStatus
         /\ isGameActive' = r.w.isGameActive
         /\ gameTimeRemaining' = r.w.gameTimeRemaining
         /\ playerAssignedSkills' = r.w.assigned
         /\ currentTick' = r.w.tick
         /\ ballHistory' = r.ballHistory
         /\ playerHistory' = r.playerHistory
         /\ emitted' =
              r.w.out
              \o (IF net >= NETWORK_TICK_MS
                  THEN << Msg("ball:state", NULL, NULL, r.w.ball.sequence, r.w.tick) >>
                       \o (IF DOMAIN r.w.phys # {}
                           THEN << Msg("players:physicsUpdate", NULL, NULL,
                                       r.w.ball.sequence, r.w.tick) >>
                           ELSE << >>)
                  ELSE << >>)
         /\ lastOp' = Op("serverTick", NULL, now - lastTime, TRUE)
  /\ lastSnapshot' = SnapshotAfter(emitted')
  /\ UNCHANGED << sockets, activeConnections, updateInterval, runningLoops, loopThrew,
                  replay, now, sceneVars, physOrder, lastKickTime, kickLog, skillLog,
                  cancelDue, selectionVars, skillVars >>

(***************************************************************************)
(* Specification of the wakes: a red player stands in SoccerMap, the ball  *)
(* rests; the process is woken after short and long pauses.                *)
(***************************************************************************)
\* Elapsed milliseconds and physics steps
MaxWakeElapsed == 1100
MaxWakeTick == 12

\* The pauses between two wakes, ms.
WakePauses == {100, 1000}

NextWake ==
  \/ \E d \in WakePauses :
       /\ now + d <= StartTime + MaxWakeElapsed
       /\ AdvanceClock(d)
  \/ (currentTick < MaxWakeTick /\ ServerTick)

SpecWake == InitInput /\ [][NextWake]_vars

\* C33: in each wake the elapsed time is capped at 160 ms before it goes
\* into the physics accumulator and into the network accumulator: a single
\* wake runs at most 10 physics steps and neither accumulator grows by more
\* than 160 ms, however long the process was stalled.
C33_ElapsedCapped ==
  [][lastOp'.op = "serverTick" =>
       /\ currentTick' - currentTick <= 10
       /\ accumulator' - accumulator <= 10 * FIXED_TIMESTEP_MS
       /\ networkAccumulator' - networkAccumulator <= 10 * FIXED_TIMESTEP_MS]_vars

(***************************************************************************)
(* Specification of lurking radius: in the lobby a (red) stands at         *)
(* (500, 800) and b (blue) at (3000, 800); the ball flies near one of      *)
(* them, in the open or along the left wall; both activate lurking_radius  *)
(* while time passes.                                                      *)
(***************************************************************************)
\* Elapsed milliseconds
MaxLurkElapsed == 24000

LurkBalls ==
  { BallInFlight(35, 800, 0, 100), BallInFlight(2700, 800, 100, 0) }

InitLurk ==
  \E ball \in LurkBalls :
    SetUp({"a", "b"},
          [p \in {"a", "b"} |-> InMap(IF p = "a" THEN "red" ELSE "blue")],
          << "a", "b" >>,
          [p \in {"a", "b"} |-> IF p = "a" THEN Body("red", 500, 800, NoStats)
                                ELSE Body("blue", 3000, 800, NoStats)],
          ball)

LurkClockSteps == {4000, 20000}

NextLurk ==
  \/ \E playerId \in {"a", "b"} : HandleActivateSkill(playerId, "lurking_radius", NULL)
  \/ \E d \in LurkClockSteps :
       /\ now + d <= StartTime + MaxLurkElapsed
       /\ AdvanceClock(d)
  \/ FireTimer

SpecLurk == InitLurk /\ [][NextLurk]_vars

\* The step is an activation of lurking_radius by p that has passed the
\* team and ownership checks.
LurkingActivated(p) ==
  /\ lastOp'.op \in {"lurking_radius", "lurking_intercept"}
  /\ lastOp'.player = p
  /\ SkillAllowed(p, "lurking_radius")
  /\ p \in DOMAIN playerPhysics

\* p's window is armed and has not run out.
InWindow(p) == p \in DOMAIN lurkingPlayers /\ now < lurkingPlayers[p]

\* The ball is within the radius of p.
BallInRadius(p) ==
  Dist2(ballState.x, ballState.y, playerPhysics[p].x, playerPhysics[p].y)
    <= SOCCER_SKILLS.lurking_radius.radius * SOCCER_SKILLS.lurking_radius.radius

\* The first activation: outside a window, the cooldown over.
LurkingArms(p) ==
  (~InWindow(p)
   /\ now - LastUsed(p, "lurking_radius") >= SOCCER_SKILLS.lurking_radius.cooldownMs)
    => /\ p \in DOMAIN lurkingPlayers'
       /\ lurkingPlayers'[p] = now + 5000
       /\ LastUsed(p, "lurking_radius")' = now

\* What the intercept does beside placing the player.
LurkingTakesBall(p) ==
  /\ playerPhysics'[p].vx = 0
  /\ playerPhysics'[p].vy = 0
  /\ ballState'.vx = 0
  /\ ballState'.vy = 0
  /\ ballState'.lastTouchId = p
  /\ p \notin DOMAIN lurkingPlayers'

\* The second activation with the ball out of reach.
LurkingMisses(p) ==
  (InWindow(p) /\ ~BallInRadius(p))
    => UNCHANGED << ballState, playerPhysics, lurkingPlayers, playerSkillCooldowns,
                    timers, sceneVars, skillVars >>

\* The x of the point 40 px from the ball on the side of p's team.
BesideBall(p) ==
  IF playerPositions[p].team = "red" THEN ballState.x - 40 ELSE ballState.x + 40

C35_PhysicsTeamMatches ==
  \A p \in DOMAIN playerPositions \cap DOMAIN playerPhysics :
    playerPositions[p].currentScene = "SoccerMap"
      => playerPhysics[p].team = playerPositions[p].team

(***************************************************************************)
(* Specification of the touch chain: in the lobby a (red) and b (blue)     *)
(* stand 100 px to the left and to the right of the resting ball; both     *)
(* kick it, dribble it and use power_shot and lurking_radius on it.        *)
(***************************************************************************)
\* Elapsed milliseconds (no timeout falls due in them), and the ball
\* sequence up to which kicks and dribbles are sent
MaxTouchElapsed == 300
MaxTouchSeq == 2

TouchSkills == {"power_shot", "lurking_radius"}

NextTouch ==
  \/ \E p \in {"a", "b"} :
       /\ ballState.sequence < MaxTouchSeq
       /\ HandleBallKick(p, "N", 0, 0)
  \/ \E p \in {"a", "b"}, skillId \in TouchSkills :
       /\ << p, skillId >> \notin DOMAIN skillLog \/ (skillId = "lurking_radius" /\ Lurking(p))
       /\ HandleActivateSkill(p, skillId, NULL)
  \/ /\ now + KICK_COOLDOWN_MS <= StartTime + MaxTouchElapsed
     /\ AdvanceClock(KICK_COOLDOWN_MS)

SpecTouch == InitKick /\ [][NextTouch]_vars

\* C36: the ball's touch chain never names the same player twice: whenever
\* previousTouchId is not null it differs from lastTouchId, after every
\* kick, dribble, ball-player contact and skill touch, so that a single goal
\* never credits one player with both the goal and the assist.
C36_TouchChainDistinct ==
  ballState.previousTouchId # NULL
    => ballState.previousTouchId # ballState.lastTouchId


(***************************************************************************)
(* The records of a finished match                                         *)
(***************************************************************************)
\* Message m of a finished match carries the match e as handleGameEnd found
\* it: the final score, and for each player the goals, assists and
\* interceptions of e.
CarriesFinal(m, e) ==
  /\ m.type = "soccer:gameEnd" =>
       /\ m.score = e.score
       /\ \A j \in 1..Len(m.mmrUpdates) :
            m.mmrUpdates[j].stats = StatsOf(e.stats, m.mmrUpdates[j].player)
  /\ m.type = "addMatchHistory" =>
       /\ m.goals = StatsOf(e.stats, m.player).goals
       /\ m.assists = StatsOf(e.stats, m.player).assists
       /\ m.interceptions = StatsOf(e.stats, m.player).interceptions
       /\ m.ourScore = (IF m.team = "red" THEN e.score.red ELSE e.score.blue)
       /\ m.opponentScore = (IF m.team = "red" THEN e.score.blue ELSE e.score.red)

\* The step runs the rest of processMmr, which was waiting on its first await.
MmrCompletes ==
  /\ DueTimers # {}
  /\ timers[NextTimer].kind = "processMmr"
  /\ timers' = RemoveAt(timers, NextTimer)

\* C37: the soccer:gameEnd event and every match-history record written for
\* a match carry that match's final score and each player's goals, assists
\* and interceptions as they stood when the clock expired, also when the
\* persistence calls complete after the reset to LOBBY.
C37_RecordsCarryFinalMatch ==
  [][/\ MmrCompletes =>
          \A i \in 1..Len(emitted') :
            CarriesFinal(emitted'[i], timers[NextTimer].final)
     /\ (lastOp'.op = "PhysicsStep" /\ lastOp'.arg.winner # NULL) =>
          \A i \in 1..Len(emitted') :
            CarriesFinal(emitted'[i], lastOp'.arg)]_vars


(***************************************************************************)
(* Match stats at kick-off                                                 *)
(***************************************************************************)
MaxKickoffTick == 6

MaxKickoffElapsed == 300

\* a (red) and b (blue) in the lobby with the ball between them.
InitKickoff ==
  SetUp({"a", "b"}, [p \in {"a", "b"} |-> InMap(IF p = "a" THEN "red" ELSE "blue")],
        << "a", "b" >>,
        [p \in {"a", "b"} |->
           IF p = "a" THEN Body("red", 1000, 800, NoStats)
           ELSE Body("blue", 1200, 800, NoStats)],
        BallAt(1080, 800))

\* The skills the two players pick.
KickoffSkills == {"blink", "metavision"}

NextKickoff ==
  \/ (ballState.sequence < 1 /\ HandleBallKick("a", "E", 0, 0))
  \/ (currentTick < MaxKickoffTick /\ PhysicsStep)
  \/ HandleStartGame
  \/ \E playerId \in {"a", "b"}, skillId \in KickoffSkills :
       HandlePickSkill(playerId, skillId)
  \/ /\ now + KICK_COOLDOWN_MS <= StartTime + MaxKickoffElapsed
     /\ AdvanceClock(KICK_COOLDOWN_MS)

SpecKickoff == InitKickoff /\ [][NextKickoff]_vars

\* The step makes the match ACTIVE.
MatchBecomesActive == gameStatus # "ACTIVE" /\ gameStatus' = "ACTIVE"

\* C38: when a match becomes ACTIVE, every player's match stats (goals,
\* assists, interceptions) are zero, so nothing recorded in the preceding
\* LOBBY or selection phase is counted for the match.
C38_StatsZeroAtKickoff ==
  [][MatchBecomesActive =>
       \A p \in DOMAIN playerPositions' :
         StatsOf(playerMatchStats', p) = [goals |-> 0, assists |-> 0, interceptions |-> 0]]_vars


(***************************************************************************)
(* Overlapping slowdowns                                                   *)
(***************************************************************************)
MaxSlowElapsed == 10000

\* a, b and c on teams in the lobby, where every skill is open to everyone.
InitSlow ==
  SetUp({"a", "b", "c"},
        [p \in {"a", "b", "c"} |-> InMap(IF p = "b" THEN "blue" ELSE "red")],
        << "a", "b", "c" >>,
        [p \in {"a", "b", "c"} |->
           IF p = "a" THEN Body("red", 1000, 600, NoStats)
           ELSE IF p = "b" THEN Body("blue", 2400, 1000, NoStats)
           ELSE Body("red", 1000, 1000, NoStats)],
        InitialBall)

SlowClockSteps == {2500}

\* An expired timeout runs before the next event and before the clock moves on.
NextSlow ==
  \/ \E p \in {"a", "b"} : DueTimers = {} /\ HandleActivateSkill(p, "slowdown", NULL)
  \/ \E d \in SlowClockSteps :
       /\ DueTimers = {}
       /\ now + d <= StartTime + MaxSlowElapsed
       /\ AdvanceClock(d)
  \/ FireTimer

SpecSlow == InitSlow /\ [][NextSlow]_vars

\* The slowdowns that have not expired yet: their expiry timeouts.
ActiveSlowdowns ==
  {i \in 1..Len(timers) : /\ timers[i].kind = "skillEnd"
                          /\ timers[i].skill = "slowdown"
                          /\ now < timers[i].fireAt}

\* C39: a player hit by a slowdown activated at time t stays slowed until
\* t + 5000 ms: as long as any slowdown targeting p has not expired, p is in
\* the slowed set, also when an earlier, overlapping slowdown of another
\* player expires in between.
C39_SlowedUntilLastExpiry ==
  \A i \in ActiveSlowdowns : timers[i].affected \subseteq slowedPlayers


(***************************************************************************)
(* Leaving SoccerMap                                                       *)
(***************************************************************************)
MaxLeaveTick == 2

LeaveSkills == {"metavision"}

NextLeave ==
  \/ UpdatePlayerInput("a", Input([up |-> FALSE, down |-> FALSE, left |-> FALSE,
                                   right |-> TRUE], 1))
  \/ \E skillId \in LeaveSkills : HandleActivateSkill("a", skillId, NULL)
  \/ (currentTick < MaxLeaveTick /\ PhysicsStep)
  \/ \E scene \in Scenes, pt \in LoopPoints : SceneChange("a", scene, pt, NoStats)
  \/ Disconnect("a")

SpecLeave == InitInput /\ [][NextLeave]_vars

\* p is in SoccerMap.
InSoccerMap(positions, p) ==
  p \in DOMAIN positions /\ positions[p].currentScene = "SoccerMap"

\* The step takes p out of SoccerMap: a scene change or a disconnect.
LeavesSoccerMap(p) ==
  InSoccerMap(playerPositions, p) /\ ~InSoccerMap(playerPositions', p)

\* The step brings p into SoccerMap.
EntersSoccerMap(p) ==
  ~InSoccerMap(playerPositions, p) /\ InSoccerMap(playerPositions', p)

\* C40: after a player leaves SoccerMap or disconnects, no per-player
\* simulation state for that id remains (physics record, current input,
\* input queue, position history, lastProcessedSequence, skill cooldowns and
\* effect-set membership), so a player who re-enters with the same id starts
\* with lastProcessedSequence 0.
C40_NoStateAfterLeave ==
  [][\A p \in Players :
       /\ LeavesSoccerMap(p) =>
            /\ p \notin DOMAIN playerPhysics'
            /\ p \notin DOMAIN playerInputs'
            /\ p \notin DOMAIN playerInputQueues'
            /\ p \notin DOMAIN playerHistory'
            /\ p \notin DOMAIN lastProcessedSequence'
            /\ p \notin DOMAIN playerSkillCooldowns'
            /\ p \notin DOMAIN lurkingPlayers'
            /\ p \notin DOMAIN playerBuffs'
            /\ p \notin slowedPlayers' \cup metavisionPlayers' \cup ninjaStepPlayers'
       /\ EntersSoccerMap(p) => p \notin DOMAIN lastProcessedSequence']_vars

====
